---- MODULE Spec2Model ----
(***************************************************************************)
(* The protocol client of the devtools front end (InspectorBackend.ts):    *)
(* SessionRouter, TargetBase, _AgentPrototype and DispatcherManager.       *)
(* One action per public operation or event-loop turn; a turn that calls   *)
(* into other objects (a callback that sends the cached message, a dispose *)
(* that unregisters a session) is one action.                              *)
(***************************************************************************)
EXTENDS Integers, Sequences, FiniteSets, TLC

\* ------------------------------------------------------------- bounds
MaxTargets == 2
MaxRouters == 2
MaxCalls == 2
MaxBurst == 4
MaxInvokes == 3
MaxArgs == 2
MaxHandlers == 3
MaxModels == 2
MaxStack == 4
MaxAwaiting == 2
MaxScenario == 4
MaxScripts == 2

\* ------------------------------------------------- program constants
DevToolsStubErrorCode == -32015
GenericError == -32000
ConnectionClosedErrorCode == -32001

LongPollingMethods == {"CSS.takeComputedStyleUpdates"}
DebouncedMethods == {"DOM.getBoxModel", "DOM.getNodeForLocation", "CSS.getComputedStyleForNode"}

\* ------------------------------------------------------ model inputs
TargetIds == 1..MaxTargets
RouterIds == 1..MaxRouters
CallIds == 1..(IF MaxBurst > MaxCalls THEN MaxBurst ELSE MaxCalls)
SessionIds == {"", "s1"}
Methods == {"DOM.getBoxModel", "DOM.querySelector"}
ArgTypes == {"number", "string", "undefined"}
ArgLists == UNION {[1..n -> ArgTypes] : n \in 0..MaxArgs}

\* The parameter schemas recorded by registerCommand for the methods above.
CommandParameters(method) ==
  IF method = "DOM.getBoxModel"
    THEN <<[name |-> "nodeId", type |-> "number", optional |-> TRUE]>>
  ELSE IF method = "DOM.querySelector"
    THEN <<[name |-> "nodeId", type |-> "number", optional |-> FALSE],
           [name |-> "selector", type |-> "string", optional |-> FALSE]>>
  ELSE <<>>

\* The reply fields recorded by registerCommand (_replyArgs).
ReplyArgs(method) ==
  IF method = "DOM.getBoxModel" THEN <<"model">>
  ELSE IF method = "DOM.querySelector" THEN <<"nodeId">>
  ELSE <<>>

\* --------------------------------------------------------- the state
VARIABLES
  targets,             \* TargetBase objects: created, _sessionId, _router (0 = null)
  routers,             \* SessionRouter objects
  wire,                \* per router, the messages handed to Connection.sendRawMessage
  unresolvedMessages,  \* _AgentPrototype._unresolvedMessages (shared by all targets of the domain)
  cachedMessages,      \* _AgentPrototype._cachedMessages: the cached call, 0 = none
  dispatchers,         \* per target and domain, DispatcherManager.dispatchers
  timers,              \* the setTimeout(0) queue, in firing order
  calls,               \* one record per command call (its callback and its promise)
  nextCall,            \* the next free call record
  turn,                \* what the current turn did (reports, callbacks run, events delivered)
  stack,               \* DOMModelUndoStack._stack
  index,               \* DOMModelUndoStack._index
  lastModelWithMinorChange, \* DOMModelUndoStack._lastModelWithMinorChange, 0 = null
  awaiting,            \* _markUndoableState calls suspended at await invoke_markUndoableState()
  undoTurn,            \* the last undo stack call and the one before it: the call, the
                       \* index it found, the backend calls it issued
  scenario,            \* the markUndoableState calls made so far, while nothing else was called
  recentMinor          \* the model of the most recent minor markUndoableState call, 0 once a
                       \* major call, undo(), redo() or dispose followed it

routerVars == <<targets, routers, wire, unresolvedMessages, cachedMessages, dispatchers,
                timers, calls, nextCall, turn>>
undoVars == <<stack, index, lastModelWithMinorChange, awaiting, undoTurn, scenario, recentMinor>>
vars == <<targets, routers, wire, unresolvedMessages, cachedMessages, dispatchers,
          timers, calls, nextCall, turn, stack, index, lastModelWithMinorChange,
          awaiting, undoTurn, scenario, recentMinor>>

\* --------------------------------------------------------- values
NoError == [code |-> 0, message |-> "null"]
BackendError == [code |-> GenericError, message |-> "backend"]
\* SessionRouter.dispatchConnectionError's error object
ConnectionError == [code |-> ConnectionClosedErrorCode, message |-> "Connection is closed"]
\* SessionRouter.dispatchUnregisterSessionError's error object
UnregisterSessionError == [code |-> ConnectionClosedErrorCode, message |-> "Session is unregistering"]

\* x || null on a value that is absent ("undef"), null or an object
OrNull(x) == IF x \in {"undef", "null"} THEN "null" ELSE x
NoSession == [present |-> FALSE, target |-> 0, callbacks |-> {}, proxyConnection |-> "none"]
NoRouter == [exists |-> FALSE, lastMessageId |-> 1, pendingResponsesCount |-> 0,
             pendingLongPollingMessageIds |-> {}, sessions |-> [s \in SessionIds |-> NoSession],
             assigned |-> <<>>, pendingScripts |-> <<>>, queued |-> 0, executed |-> <<>>]
NoTarget == [created |-> FALSE, sessionId |-> "", router |-> 0]
\* a call: its arguments, where sendMessage put it (router, messageId, written), how often
\* unregisterSession scheduled its callback (failing), how often the callback ran (invoked),
\* how often with the unregistering error (unregistered), and whether its promise resolved
NoCall == [kind |-> "none", target |-> 0, method |-> "", sessionId |-> "", issuedLive |-> FALSE,
           router |-> 0, messageId |-> 0, written |-> FALSE,
           failing |-> 0, invoked |-> 0, unregistered |-> 0, resolved |-> FALSE]
\* the log of one turn: the operation, the protocol errors and warnings reported, the
\* validation error given to the error sink, the callbacks run, the promise values
\* resolved and the events delivered
IdleTurn == [op |-> "idle", errors |-> {}, warnings |-> {}, sink |-> "none", forwarded |-> 0,
             invoked |-> <<>>, resolved |-> <<>>, delivered |-> <<>>, ran |-> <<>>]

Min(a, b) == IF a < b THEN a ELSE b

\* splitQualifiedName: the text before the first "." is the domain
DomainOf(method) ==
  CASE method \in {"DOM.getBoxModel", "DOM.getNodeForLocation", "DOM.querySelector",
                   "DOM.documentUpdated", "DOM.attributeModified", "DOM.unspecified"} -> "DOM"
    [] method \in {"CSS.getComputedStyleForNode", "CSS.takeComputedStyleUpdates",
                   "CSS.styleSheetAdded"} -> "CSS"
    [] method = "Debugger.paused" -> "Debugger"
    [] OTHER -> "Foo"


\* ------------------------------------------------------ SessionRouter
\* The mutable objects a turn works on; the turn's log starts empty.
State ==
  [routers |-> routers, wire |-> wire, unresolvedMessages |-> unresolvedMessages,
   cachedMessages |-> cachedMessages, timers |-> timers, calls |-> calls,
   turn |-> IdleTurn]

Commit(S) ==
  /\ routers' = S.routers
  /\ wire' = S.wire
  /\ unresolvedMessages' = S.unresolvedMessages
  /\ cachedMessages' = S.cachedMessages
  /\ timers' = S.timers
  /\ calls' = S.calls
  /\ turn' = S.turn
  /\ UNCHANGED undoVars

\* mutant: the counter is read but not advanced
NextMessageIdNotAdvanced(lastMessageId) ==
  [id |-> lastMessageId, lastMessageId |-> lastMessageId]

\* _nextMessageId: return this._lastMessageId++
NextMessageId(lastMessageId) ==
  [id |-> lastMessageId, lastMessageId |-> lastMessageId + 1]

\* mutant: responses are matched in sending order instead of by id
CallbackOfOldest(callbacks, id) ==
  IF callbacks = {} THEN 0
  ELSE (CHOOSE p \in callbacks : \A q \in callbacks : p[1] <= q[1])[2]

\* mutant: an id that is not stored falls back to some stored callback
CallbackOfAny(callbacks, id) ==
  IF \E p \in callbacks : p[1] = id THEN (CHOOSE p \in callbacks : p[1] = id)[2]
  ELSE IF callbacks = {} THEN 0
  ELSE (CHOOSE p \in callbacks : TRUE)[2]

\* session.callbacks.get(id): the call whose callback is stored under id, 0 = undefined
CallbackOf(callbacks, id) ==
  IF \E p \in callbacks : p[1] = id THEN (CHOOSE p \in callbacks : p[1] = id)[2] ELSE 0

\* mutant: a command for an unknown session is failed like a command without a router
SendMessageFailsUnknownSession(S, r, sessionId, method, c) ==
  LET n == NextMessageId(S.routers[r].lastMessageId)
      messageId == n.id
      session == S.routers[r].sessions[sessionId]
      R1 == [S.routers[r] EXCEPT
               !.lastMessageId = n.lastMessageId,
               !.assigned = Append(@, messageId),
               !.pendingResponsesCount = @ + 1,
               !.pendingLongPollingMessageIds =
                  IF method \in LongPollingMethods THEN @ \cup {messageId} ELSE @]
      C1 == [S.calls[c] EXCEPT !.router = r, !.messageId = messageId]
  IN IF ~session.present
       THEN [S EXCEPT !.routers[r] = R1, !.calls[c] = C1,
                      !.timers = Append(@, [call |-> c, error |-> ConnectionError])]
       ELSE [S EXCEPT
               !.routers[r] = [R1 EXCEPT !.sessions[sessionId].callbacks =
                                 {p \in @ : p[1] # messageId} \cup {<<messageId, c>>}],
               !.wire[r] = Append(@, [id |-> messageId, method |-> method,
                                      sessionId |-> sessionId, call |-> c]),
               !.calls[c] = [C1 EXCEPT !.written = TRUE]]

\* sendMessage(sessionId, domain, method, params, callback), callback = that of call c
SendMessage(S, r, sessionId, method, c) ==
  LET n == NextMessageId(S.routers[r].lastMessageId)
      messageId == n.id
      session == S.routers[r].sessions[sessionId]
      R1 == [S.routers[r] EXCEPT
               !.lastMessageId = n.lastMessageId,
               !.assigned = Append(@, messageId),
               !.pendingResponsesCount = @ + 1,
               !.pendingLongPollingMessageIds =
                  IF method \in LongPollingMethods THEN @ \cup {messageId} ELSE @]
      C1 == [S.calls[c] EXCEPT !.router = r, !.messageId = messageId]
  IN IF ~session.present
       THEN [S EXCEPT !.routers[r] = R1, !.calls[c] = C1]
       ELSE [S EXCEPT
               !.routers[r] = [R1 EXCEPT !.sessions[sessionId].callbacks =
                                 {p \in @ : p[1] # messageId} \cup {<<messageId, c>>}],
               !.wire[r] = Append(@, [id |-> messageId, method |-> method,
                                      sessionId |-> sessionId, call |-> c]),
               !.calls[c] = [C1 EXCEPT !.written = TRUE]]

\* mutant: the callback of a command without a router is dropped
DispatchConnectionErrorDropped(S, c) == S

\* static dispatchConnectionError: setTimeout(() => callback(error, null), 0)
DispatchConnectionError(S, c) ==
  [S EXCEPT !.timers = Append(@, [call |-> c, error |-> ConnectionError])]

\* mutant: the unregistering error is handed to the callback at once
DispatchUnregisterSessionErrorInline(S, c) ==
  [S EXCEPT !.calls[c].failing = Min(@ + 1, 2),
            !.calls[c].invoked = Min(@ + 1, 2),
            !.calls[c].unregistered = Min(@ + 1, 2),
            !.turn.invoked = Append(@, [call |-> c, error |-> UnregisterSessionError,
                                        result |-> "null"])]

\* static dispatchUnregisterSessionError: setTimeout(() => callback(error, null), 0)
DispatchUnregisterSessionError(S, c) ==
  [S EXCEPT !.timers = Append(@, [call |-> c, error |-> UnregisterSessionError]),
            !.calls[c].failing = Min(@ + 1, 2)]

\* session.callbacks.values(): a Map iterates in insertion order, which is id order
RECURSIVE CallbackValues(_)
CallbackValues(callbacks) ==
  IF callbacks = {} THEN <<>>
  ELSE LET first == CHOOSE p \in callbacks : \A q \in callbacks : p[1] <= q[1]
       IN <<first[2]>> \o CallbackValues(callbacks \ {first})

RECURSIVE FailAll(_, _)
FailAll(S, cs) ==
  IF cs = <<>> THEN S ELSE FailAll(DispatchUnregisterSessionError(S, Head(cs)), Tail(cs))

\* mutant: the session is deleted and its callbacks are left dangling
UnregisterSessionSilently(S, r, sessionId) ==
  [S EXCEPT !.routers[r].sessions[sessionId] = NoSession]

\* unregisterSession(sessionId)
UnregisterSession(S, r, sessionId) ==
  LET session == S.routers[r].sessions[sessionId]
  IN IF ~session.present THEN S
     ELSE [FailAll(S, CallbackValues(session.callbacks))
             EXCEPT !.routers[r].sessions[sessionId] = NoSession]

\* registerSession(target, sessionId, proxyConnection)
RegisterSession(S, r, t, sessionId, proxyConnection) ==
  LET multiple == /\ proxyConnection # "none"
                  /\ \E s \in SessionIds : /\ S.routers[r].sessions[s].present
                                           /\ S.routers[r].sessions[s].proxyConnection # "none"
      S1 == IF multiple THEN [S EXCEPT !.turn.warnings = @ \cup {"multiple proxy connections"}]
            ELSE S
  IN [S1 EXCEPT !.routers[r].sessions[sessionId] =
        [present |-> TRUE, target |-> t, callbacks |-> {}, proxyConnection |-> proxyConnection]]

\* mutant: the drain test counts the long-polling requests as outstanding
HasOutstandingRequests(R) == R.pendingResponsesCount > 0

\* _hasOutstandingNonLongPollingRequests
HasOutstandingNonLongPollingRequests(R) ==
  R.pendingResponsesCount - Cardinality(R.pendingLongPollingMessageIds) > 0

\* _deprecatedRunAfterPendingDispatches(script): script 0 = no argument; the check
\* itself runs in a later turn
DeprecatedRunAfterPendingDispatches(S, r, script) ==
  LET S1 == IF script # 0 THEN [S EXCEPT !.routers[r].pendingScripts = Append(@, script)]
            ELSE S
  IN [S1 EXCEPT !.timers = Append(@, [drain |-> r])]

\* mutant: the list of continuations is not replaced by an empty one
ExecuteAfterPendingDispatchesKeepsScripts(S, r) ==
  IF ~HasOutstandingNonLongPollingRequests(S.routers[r])
    THEN [S EXCEPT !.routers[r].executed = @ \o S.routers[r].pendingScripts,
                   !.turn.ran = @ \o S.routers[r].pendingScripts]
    ELSE S

\* _executeAfterPendingDispatches; executed is the history of the scripts[id]() calls
ExecuteAfterPendingDispatches(S, r) ==
  IF ~HasOutstandingNonLongPollingRequests(S.routers[r])
    THEN [S EXCEPT !.routers[r].pendingScripts = <<>>,
                   !.routers[r].executed = @ \o S.routers[r].pendingScripts,
                   !.turn.ran = @ \o S.routers[r].pendingScripts]
    ELSE S

\* the setTimeout callback of _deprecatedRunAfterPendingDispatches
DrainCheck(S, r) ==
  IF ~HasOutstandingNonLongPollingRequests(S.routers[r])
    THEN ExecuteAfterPendingDispatches(S, r)
    ELSE DeprecatedRunAfterPendingDispatches(S, r, 0)

\* ----------------------------------------------------- _AgentPrototype
\* resolve(value): a promise keeps its first resolution
Resolve(S, c, value) ==
  IF S.calls[c].resolved THEN S
  ELSE [S EXCEPT !.calls[c].resolved = TRUE,
                 !.turn.resolved = Append(@, [call |-> c, value |-> value])]

\* mutant: arguments left over after the schema is consumed are accepted
RECURSIVE PrepareParametersAllowsExtra(_, _, _)
PrepareParametersAllowsExtra(parameters, args, hasParams) ==
  IF parameters = <<>> THEN [error |-> "none", hasParams |-> hasParams]
  ELSE LET param == Head(parameters)
           typeOfValue == IF args = <<>> THEN "undefined" ELSE Head(args)
           rest == IF args = <<>> THEN <<>> ELSE Tail(args)
       IN IF args = <<>> /\ ~param.optional
            THEN [error |-> "invalid number of arguments", hasParams |-> FALSE]
          ELSE IF param.optional /\ typeOfValue = "undefined"
            THEN PrepareParametersAllowsExtra(Tail(parameters), rest, hasParams)
          ELSE IF typeOfValue # param.type
            THEN [error |-> "invalid type of argument", hasParams |-> FALSE]
          ELSE PrepareParametersAllowsExtra(Tail(parameters), rest, TRUE)

\* _prepareParameters: the error it reports ("none" when the arguments fit) and
\* whether a parameter object is built
RECURSIVE PrepareParameters(_, _, _)
PrepareParameters(parameters, args, hasParams) ==
  IF parameters = <<>>
    THEN IF Len(args) > 0 THEN [error |-> "extra arguments", hasParams |-> FALSE]
         ELSE [error |-> "none", hasParams |-> hasParams]
  ELSE LET param == Head(parameters)
           typeOfValue == IF args = <<>> THEN "undefined" ELSE Head(args)
           rest == IF args = <<>> THEN <<>> ELSE Tail(args)
       IN IF args = <<>> /\ ~param.optional
            THEN [error |-> "invalid number of arguments", hasParams |-> FALSE]
          ELSE IF param.optional /\ typeOfValue = "undefined"
            THEN PrepareParameters(Tail(parameters), rest, hasParams)
          ELSE IF typeOfValue # param.type
            THEN [error |-> "invalid type of argument", hasParams |-> FALSE]
          ELSE PrepareParameters(Tail(parameters), rest, TRUE)

\* the callback built by _sendMessageToBackendPromise
PositionalCallback(S, c, error, result) ==
  IF error # NoError THEN Resolve(S, c, "null")
  ELSE Resolve(S, c, IF result # "null" /\ Len(ReplyArgs(S.calls[c].method)) > 0
                       THEN "reply field" ELSE "undefined")

\* _destructMessage: the session id stored in a cached message
DestructMessage(S, cached) == S.calls[cached].sessionId

\* the callback built by _invoke; this._target is the target the call was made on
InvokeCallback(S, c, error, result) ==
  LET method == S.calls[c].method
      t == S.calls[c].target
      S1 == IF method \in DebouncedMethods
              THEN LET Sd == [S EXCEPT !.unresolvedMessages[method] = 0]
                       cached == Sd.cachedMessages[method]
                   IN IF cached # 0
                        THEN IF targets[t].router = 0
                               THEN DispatchConnectionError(Sd, c)
                               ELSE [SendMessage(Sd, targets[t].router,
                                                 DestructMessage(Sd, cached), method, cached)
                                       EXCEPT !.unresolvedMessages[method] = 1,
                                              !.cachedMessages[method] = 0]
                        ELSE Sd
              ELSE S
  IN Resolve(S1, c, IF error # NoError THEN "error response" ELSE "response")

\* callback(error, result) for the callback of call c
RunCallback(S, c, error, result) ==
  LET S1 == [S EXCEPT
               !.calls[c].invoked = Min(@ + 1, 2),
               !.calls[c].unregistered =
                  IF error = UnregisterSessionError THEN Min(@ + 1, 2) ELSE @,
               !.turn.invoked = Append(@, [call |-> c, error |-> error, result |-> result])]
  IN IF S.calls[c].kind = "positional" THEN PositionalCallback(S1, c, error, result)
     ELSE InvokeCallback(S1, c, error, result)


\* ------------------------------------------------- DispatcherManager
\* the domains and events registered through registerEvent
EventDomains == {"DOM", "Debugger"}
RegisteredEvents == {"DOM.documentUpdated", "DOM.attributeModified", "Debugger.paused"}
EventNames == RegisteredEvents \cup {"DOM.unspecified", "Foo.bar"}
HandlerIds == {"h1", "h2"}

\* splitQualifiedName: the text after the first "."
UnqualifiedOf(method) ==
  CASE method = "DOM.documentUpdated" -> "documentUpdated"
    [] method = "DOM.attributeModified" -> "attributeModified"
    [] method = "DOM.unspecified" -> "unspecified"
    [] method = "Debugger.paused" -> "paused"
    [] OTHER -> "bar"

\* event in dispatcher: the properties of the registered handler objects
HandlerImplements(h, event) ==
  \/ h = "h1" /\ event \in {"documentUpdated", "unspecified", "paused"}
  \/ h = "h2" /\ event \in {"documentUpdated", "attributeModified", "paused"}

\* base64js.toByteArray + Zlib.Inflate + JSON.parse of a compressed payload
Decompress(params) == IF params = "b64:deflate:{x:1}" THEN "{x:1}" ELSE "{}"

\* mutant: the handlers are called from the newest registration to the oldest
DeliveriesNewestFirst(ds, event, messageParams) ==
  LET called == SelectSeq(ds, LAMBDA h : HandlerImplements(h, event))
  IN [i \in 1..Len(called) |->
        [handler |-> called[Len(called) + 1 - i], event |-> event, params |-> messageParams]]

\* the loop of dispatch: f.call(dispatcher, messageParams) for each dispatcher with the event
RECURSIVE Deliveries(_, _, _)
Deliveries(ds, event, messageParams) ==
  IF ds = <<>> THEN <<>>
  ELSE (IF HandlerImplements(Head(ds), event)
          THEN <<[handler |-> Head(ds), event |-> event, params |-> messageParams]>>
          ELSE <<>>) \o Deliveries(Tail(ds), event, messageParams)

\* mutant: the event name is not looked up in the parameter-name table
ManagerDispatchUnchecked(S, ds, event, m) ==
  IF Len(ds) = 0 THEN S
  ELSE LET messageParams == IF m.compress THEN Decompress(m.params) ELSE m.params
       IN [S EXCEPT !.turn.delivered = @ \o Deliveries(ds, event, messageParams)]

\* DispatcherManager.dispatch(event, messageObject)
ManagerDispatch(S, ds, event, m) ==
  IF Len(ds) = 0 THEN S
  ELSE IF m.method \notin RegisteredEvents
    THEN [S EXCEPT !.turn.warnings = @ \cup {"unspecified event"}]
  ELSE LET messageParams == IF m.compress THEN Decompress(m.params) ELSE m.params
       IN [S EXCEPT !.turn.delivered = @ \o Deliveries(ds, event, messageParams)]

\* TargetBase.dispatch(eventMessage)
TargetDispatch(S, t, m) ==
  LET domainName == DomainOf(m.method)
  IN IF domainName \notin EventDomains
       THEN [S EXCEPT !.turn.errors = @ \cup {"non-existing domain"}]
       ELSE ManagerDispatch(S, dispatchers[t][domainName], UnqualifiedOf(m.method), m)

\* ----------------------------------------------- SessionRouter._onMessage
\* mutant: only the proxy connection of the root session is served
ForwardedToRoot(R) ==
  {s \in {""} : R.sessions[s].present /\ R.sessions[s].proxyConnection = "proxy"}

\* the sessions of router R whose proxy connection the message is forwarded to
ForwardedTo(R) ==
  {s \in SessionIds : R.sessions[s].present /\ R.sessions[s].proxyConnection = "proxy"}

\* mutant: the suppression flag is read the wrong way round
ReportProtocolErrorInverted(S, suppress, error) ==
  IF suppress THEN [S EXCEPT !.turn.errors = @ \cup {error}] ELSE S

\* InspectorBackend.reportProtocolError, called unless suppressUnknownMessageErrors
ReportProtocolError(S, suppress, error) ==
  IF suppress THEN S ELSE [S EXCEPT !.turn.errors = @ \cup {error}]

\* mutant: a message for a session with a proxy connection is handled like any other
OnMessageTurnHandlesProxied(S, r, m) ==
  LET R == S.routers[r]
      suppressUnknownMessageErrors == ForwardedTo(R) # {}
      noOnMessage == \E s \in SessionIds : /\ R.sessions[s].present
                                           /\ R.sessions[s].proxyConnection = "no _onMessage"
      S0 == [S EXCEPT
               !.turn.forwarded = Cardinality(ForwardedTo(R)),
               !.turn.errors = IF noOnMessage THEN {"proxyConnection with no _onMessage"} ELSE {}]
      session == R.sessions[m.sessionId]
  IN IF ~session.present
       THEN ReportProtocolError(S0, suppressUnknownMessageErrors, "wrong session id")
     ELSE IF m.id # 0
       THEN LET c == CallbackOf(session.callbacks, m.id)
                S1 == [S0 EXCEPT !.routers[r].sessions[m.sessionId].callbacks =
                                    {p \in @ : p[1] # m.id}]
            IN IF c = 0
                 THEN ReportProtocolError(S1, suppressUnknownMessageErrors, "wrong id")
                 ELSE LET S2 == RunCallback(S1, c, m.error, OrNull(m.result))
                          S3 == [S2 EXCEPT
                                   !.routers[r].pendingResponsesCount = @ - 1,
                                   !.routers[r].pendingLongPollingMessageIds = @ \ {m.id}]
                      IN IF /\ S3.routers[r].pendingScripts # <<>>
                            /\ ~HasOutstandingNonLongPollingRequests(S3.routers[r])
                           THEN DeprecatedRunAfterPendingDispatches(S3, r, 0)
                           ELSE S3
     ELSE IF m.method = ""
       THEN ReportProtocolError(S0, FALSE, "without method")
     ELSE TargetDispatch(S0, session.target, m)

\* _onMessage(message)
OnMessageTurn(S, r, m) ==
  LET R == S.routers[r]
      suppressUnknownMessageErrors == ForwardedTo(R) # {}
      noOnMessage == \E s \in SessionIds : /\ R.sessions[s].present
                                           /\ R.sessions[s].proxyConnection = "no _onMessage"
      S0 == [S EXCEPT
               !.turn.forwarded = Cardinality(ForwardedTo(R)),
               !.turn.errors = IF noOnMessage THEN {"proxyConnection with no _onMessage"} ELSE {}]
      session == R.sessions[m.sessionId]
  IN IF ~session.present
       THEN ReportProtocolError(S0, suppressUnknownMessageErrors, "wrong session id")
     ELSE IF session.proxyConnection # "none" THEN S0
     ELSE IF m.id # 0
       THEN LET c == CallbackOf(session.callbacks, m.id)
                S1 == [S0 EXCEPT !.routers[r].sessions[m.sessionId].callbacks =
                                    {p \in @ : p[1] # m.id}]
            IN IF c = 0
                 THEN ReportProtocolError(S1, suppressUnknownMessageErrors, "wrong id")
                 ELSE LET S2 == RunCallback(S1, c, m.error, OrNull(m.result))
                          S3 == [S2 EXCEPT
                                   !.routers[r].pendingResponsesCount = @ - 1,
                                   !.routers[r].pendingLongPollingMessageIds = @ \ {m.id}]
                      IN IF /\ S3.routers[r].pendingScripts # <<>>
                            /\ ~HasOutstandingNonLongPollingRequests(S3.routers[r])
                           THEN DeprecatedRunAfterPendingDispatches(S3, r, 0)
                           ELSE S3
     ELSE IF m.method = ""
       THEN ReportProtocolError(S0, FALSE, "without method")
     ELSE TargetDispatch(S0, session.target, m)

\* ------------------------------------------------------------ actions
Init ==
  /\ targets = [t \in TargetIds |-> NoTarget]
  /\ routers = [r \in RouterIds |-> NoRouter]
  /\ wire = [r \in RouterIds |-> <<>>]
  /\ unresolvedMessages = [m \in DebouncedMethods |-> 0]
  /\ cachedMessages = [m \in DebouncedMethods |-> 0]
  /\ dispatchers = [t \in TargetIds |-> [d \in EventDomains |-> <<>>]]
  /\ timers = <<>>
  /\ calls = [c \in CallIds |-> NoCall]
  /\ nextCall = 1
  /\ turn = IdleTurn
  /\ stack = <<>>
  /\ index = 0
  /\ lastModelWithMinorChange = 0
  /\ awaiting = 0
  /\ undoTurn = [op |-> "none", before |-> 0, backend |-> <<>>, previous |-> "none",
                 beforePrevious |-> 0]
  /\ scenario = [valid |-> TRUE, calls |-> <<>>]
  /\ recentMinor = 0

\* mutant: the argument check accepts a connection for a target that has no parent
ConstructorThrowsOnlyForSessions(parentTarget, sessionId, connection) ==
  \/ parentTarget = 0 /\ sessionId # ""
  \/ connection /\ sessionId # ""

\* the constructor's argument check
ConstructorThrows(parentTarget, sessionId, connection) ==
  \/ parentTarget = 0 /\ connection
  \/ parentTarget = 0 /\ sessionId # ""
  \/ connection /\ sessionId # ""

\* mutant: every target gets a router of its own
CreateTargetOwnRouter(t, parentTarget, sessionId, connection) ==
  /\ ~targets[t].created
  /\ \A u \in TargetIds : u < t => targets[u].created
  /\ parentTarget # 0 => targets[parentTarget].created
  /\ IF ConstructorThrows(parentTarget, sessionId, connection)
       THEN /\ turn' = [IdleTurn EXCEPT !.op = "constructor throws"]
            /\ UNCHANGED <<targets, routers, wire, unresolvedMessages, cachedMessages,
                           dispatchers, timers, calls, nextCall>>
            /\ UNCHANGED undoVars
       ELSE LET free == {r \in RouterIds : ~routers[r].exists}
                r == CHOOSE x \in free : \A y \in free : x <= y
                S0 == [State EXCEPT !.turn.op = "constructor"]
                S1 == [S0 EXCEPT !.routers[r] = [NoRouter EXCEPT !.exists = TRUE]]
            IN /\ free # {}
               /\ Commit(RegisterSession(S1, r, t, sessionId, "none"))
               /\ targets' = [targets EXCEPT ![t] = [created |-> TRUE, sessionId |-> sessionId,
                                                     router |-> r]]
               /\ UNCHANGED <<dispatchers, nextCall>>

\* new TargetBase(needsNodeJSPatching, parentTarget, sessionId, connection)
CreateTarget(t, parentTarget, sessionId, connection) ==
  /\ ~targets[t].created
  /\ \A u \in TargetIds : u < t => targets[u].created
  /\ parentTarget # 0 => targets[parentTarget].created
  /\ IF ConstructorThrows(parentTarget, sessionId, connection)
       THEN /\ turn' = [IdleTurn EXCEPT !.op = "constructor throws"]
            /\ UNCHANGED <<targets, routers, wire, unresolvedMessages, cachedMessages,
                           dispatchers, timers, calls, nextCall>>
            /\ UNCHANGED undoVars
       ELSE LET shared == sessionId # "" /\ parentTarget # 0 /\ targets[parentTarget].router # 0
                free == {r \in RouterIds : ~routers[r].exists}
                r == IF shared THEN targets[parentTarget].router
                     ELSE CHOOSE x \in free : \A y \in free : x <= y
                S0 == [State EXCEPT !.turn.op = "constructor"]
                S1 == IF shared THEN S0
                      ELSE [S0 EXCEPT !.routers[r] = [NoRouter EXCEPT !.exists = TRUE]]
            IN /\ shared \/ free # {}
               /\ Commit(RegisterSession(S1, r, t, sessionId, "none"))
               /\ targets' = [targets EXCEPT ![t] = [created |-> TRUE, sessionId |-> sessionId,
                                                     router |-> r]]
               /\ UNCHANGED <<dispatchers, nextCall>>

\* mutant: dispose() unregisters the session again although the target is disposed
DisposeAgain(t) ==
  /\ targets[t].created
  /\ Commit(UnregisterSession([State EXCEPT !.turn.op = "dispose"],
                              IF targets[t].router = 0 THEN 1 ELSE targets[t].router,
                              targets[t].sessionId))
  /\ targets' = [targets EXCEPT ![t].router = 0]
  /\ UNCHANGED <<dispatchers, nextCall>>

\* TargetBase.dispose(reason)
Dispose(t) ==
  /\ targets[t].created
  /\ LET S0 == [State EXCEPT !.turn.op = "dispose"]
     IN IF targets[t].router = 0
          THEN /\ Commit(S0)
               /\ UNCHANGED targets
          ELSE /\ Commit(UnregisterSession(S0, targets[t].router, targets[t].sessionId))
               /\ targets' = [targets EXCEPT ![t].router = 0]
  /\ UNCHANGED <<dispatchers, nextCall>>

\* mutant: the disconnect handler unregisters every session of the router
DisconnectFailsEverySession(r) ==
  /\ routers[r].exists
  /\ LET S0 == [State EXCEPT !.turn.op = "disconnect"]
         S1 == UnregisterSession(S0, r, "")
         S2 == UnregisterSession(S1, r, "s1")
     IN Commit(S2)
  /\ targets' = [t \in TargetIds |->
                   IF targets[t].router = r THEN [targets[t] EXCEPT !.router = 0]
                   ELSE targets[t]]
  /\ UNCHANGED <<dispatchers, nextCall>>

\* the connection of router r reports a disconnect: the handler installed by the
\* SessionRouter constructor, session.target.dispose(reason) included
Disconnect(r) ==
  /\ routers[r].exists
  /\ LET session == routers[r].sessions[""]
         t == session.target
         S0 == [State EXCEPT !.turn.op = "disconnect"]
     IN IF ~session.present
          THEN /\ Commit(S0)
               /\ UNCHANGED targets
        ELSE IF targets[t].router = 0
          THEN /\ Commit(S0)
               /\ UNCHANGED targets
          ELSE /\ Commit(UnregisterSession(S0, targets[t].router, targets[t].sessionId))
               /\ targets' = [targets EXCEPT ![t].router = 0]
  /\ UNCHANGED <<dispatchers, nextCall>>

\* router.registerSession(target, sessionId, proxyConnection) called directly
RegisterSessionCall(r, t, sessionId, proxyConnection) ==
  /\ routers[r].exists
  /\ targets[t].created /\ targets[t].router = r
  /\ Commit(RegisterSession([State EXCEPT !.turn.op = "registerSession"],
                            r, t, sessionId, proxyConnection))
  /\ UNCHANGED <<targets, dispatchers, nextCall>>

\* router.unregisterSession(sessionId) called directly
UnregisterSessionCall(r, sessionId) ==
  /\ routers[r].exists
  /\ Commit(UnregisterSession([State EXCEPT !.turn.op = "unregisterSession"], r, sessionId))
  /\ UNCHANGED <<targets, dispatchers, nextCall>>

NewCall(kind, t, method) ==
  [NoCall EXCEPT !.kind = kind, !.target = t, !.method = method,
                 !.sessionId = targets[t].sessionId, !.issuedLive = targets[t].router # 0]

\* agent.method(...args): _sendMessageToBackendPromise
CallPositional(t, method, args) ==
  /\ targets[t].created
  /\ LET prepared == PrepareParameters(CommandParameters(method), args, FALSE)
         c == nextCall
         S0 == [State EXCEPT !.turn.op = "command"]
     IN IF prepared.error # "none"
          THEN /\ Commit([S0 EXCEPT !.turn.sink = prepared.error,
                                    !.turn.resolved = <<[call |-> 0, value |-> "null"]>>])
               /\ UNCHANGED nextCall
          ELSE /\ nextCall \in CallIds
               /\ LET S1 == [S0 EXCEPT !.calls[c] = NewCall("positional", t, method)]
                  IN Commit(IF targets[t].router = 0
                              THEN DispatchConnectionError(S1, c)
                              ELSE SendMessage(S1, targets[t].router, targets[t].sessionId,
                                               method, c))
               /\ nextCall' = nextCall + 1
  /\ UNCHANGED <<targets, dispatchers>>

\* mutant: a call made while one is cached does not replace the cached call
InvokeKeepsCached(t, method) ==
  /\ targets[t].created
  /\ nextCall \in CallIds
  /\ LET c == nextCall
         r == targets[t].router
         S0 == [State EXCEPT !.calls[c] = NewCall("invoke", t, method),
                             !.turn.op = "command"]
     IN Commit(
          IF r = 0 THEN DispatchConnectionError(S0, c)
          ELSE IF method \in DebouncedMethods
            THEN IF S0.unresolvedMessages[method] = 0
                   THEN IF S0.cachedMessages[method] = 0
                          THEN SendMessage([S0 EXCEPT !.unresolvedMessages[method] = 1],
                                           r, targets[t].sessionId, method, c)
                          ELSE [SendMessage(S0, r, DestructMessage(S0, S0.cachedMessages[method]),
                                            method, S0.cachedMessages[method])
                                  EXCEPT !.cachedMessages[method] = c]
                   ELSE IF S0.cachedMessages[method] = 0
                          THEN [S0 EXCEPT !.cachedMessages[method] = c]
                          ELSE S0
          ELSE SendMessage(S0, r, targets[t].sessionId, method, c))
  /\ nextCall' = nextCall + 1
  /\ UNCHANGED <<targets, dispatchers>>

\* agent.invoke_method(request): _invoke
Invoke(t, method) ==
  /\ targets[t].created
  /\ nextCall \in CallIds
  /\ LET c == nextCall
         r == targets[t].router
         S0 == [State EXCEPT !.calls[c] = NewCall("invoke", t, method),
                             !.turn.op = "command"]
     IN Commit(
          IF r = 0 THEN DispatchConnectionError(S0, c)
          ELSE IF method \in DebouncedMethods
            THEN IF S0.unresolvedMessages[method] = 0
                   THEN IF S0.cachedMessages[method] = 0
                          THEN SendMessage([S0 EXCEPT !.unresolvedMessages[method] = 1],
                                           r, targets[t].sessionId, method, c)
                          ELSE [SendMessage(S0, r, DestructMessage(S0, S0.cachedMessages[method]),
                                            method, S0.cachedMessages[method])
                                  EXCEPT !.cachedMessages[method] = c]
                   ELSE [S0 EXCEPT !.cachedMessages[method] = c]
          ELSE SendMessage(S0, r, targets[t].sessionId, method, c))
  /\ nextCall' = nextCall + 1
  /\ UNCHANGED <<targets, dispatchers>>

\* the connection delivers message m to router r
OnMessage(r, m) ==
  /\ routers[r].exists
  /\ Commit(OnMessageTurn([State EXCEPT !.turn.op = "onMessage"], r, m))
  /\ UNCHANGED <<targets, dispatchers, nextCall>>

\* the oldest setTimeout(0) callback fires
RunTimer ==
  /\ timers # <<>>
  /\ "call" \in DOMAIN Head(timers)
  /\ LET timer == Head(timers)
         S0 == [State EXCEPT !.timers = Tail(timers), !.turn.op = "timer"]
     IN Commit(RunCallback(S0, timer.call, timer.error, "null"))
  /\ UNCHANGED <<targets, dispatchers, nextCall>>

\* the oldest setTimeout(0) callback fires and is a drain check
RunDrainCheck ==
  /\ timers # <<>>
  /\ "drain" \in DOMAIN Head(timers)
  /\ Commit(DrainCheck([State EXCEPT !.timers = Tail(timers), !.turn.op = "drain"],
                       Head(timers).drain))
  /\ UNCHANGED <<targets, dispatchers, nextCall>>

\* router._deprecatedRunAfterPendingDispatches(script) with a new continuation
RunAfterPendingDispatches(r) ==
  /\ routers[r].exists
  /\ LET script == routers[r].queued + 1
         S0 == [State EXCEPT !.turn.op = "runAfterPendingDispatches",
                             !.routers[r].queued = script]
     IN Commit(DeprecatedRunAfterPendingDispatches(S0, r, script))
  /\ UNCHANGED <<targets, dispatchers, nextCall>>

\* target.register<Domain>Dispatcher(dispatcher): addDomainDispatcher pushes it
RegisterDispatcher(t, domain, h) ==
  /\ targets[t].created
  /\ dispatchers' = [dispatchers EXCEPT ![t][domain] = Append(@, h)]
  /\ turn' = [IdleTurn EXCEPT !.op = "registerDispatcher"]
  /\ UNCHANGED <<targets, routers, wire, unresolvedMessages, cachedMessages, timers,
                 calls, nextCall>>
  /\ UNCHANGED undoVars

\* indexOf + splice(index, 1)
RemoveFirst(ds, h) ==
  IF \A i \in 1..Len(ds) : ds[i] # h THEN ds
  ELSE LET found == CHOOSE i \in 1..Len(ds) : ds[i] = h /\ \A j \in 1..(i - 1) : ds[j] # h
       IN SubSeq(ds, 1, found - 1) \o SubSeq(ds, found + 1, Len(ds))

\* target.unregisterDebuggerDispatcher(dispatcher): removeDomainDispatcher
UnregisterDispatcher(t, h) ==
  /\ targets[t].created
  /\ dispatchers' = [dispatchers EXCEPT ![t]["Debugger"] = RemoveFirst(@, h)]
  /\ turn' = [IdleTurn EXCEPT !.op = "unregisterDispatcher"]
  /\ UNCHANGED <<targets, routers, wire, unresolvedMessages, cachedMessages, timers,
                 calls, nextCall>>
  /\ UNCHANGED undoVars

\* the events a backend can deliver to router r: no id, a method, for a session
Events(r) ==
  {[sessionId |-> s, id |-> 0, method |-> e, error |-> NoError, result |-> "undef",
    compress |-> k, params |-> IF k THEN "b64:deflate:{x:1}" ELSE "{x:1}"] :
     s \in SessionIds, e \in EventNames, k \in BOOLEAN}

\* ------------------------------------------------- DOMModelUndoStack
ModelIds == 1..MaxModels

\* the fields of the undo stack and the backend calls issued so far in this call
UndoState ==
  [stack |-> stack, index |-> index, lastModelWithMinorChange |-> lastModelWithMinorChange,
   awaiting |-> awaiting, backend |-> <<>>]

\* mutant: a push keeps the entries beyond the index
PushUndoableStateKeepsRedo(U, model, minorChange) ==
  IF minorChange /\ U.lastModelWithMinorChange = model THEN U
  ELSE LET pushed == SubSeq(U.stack, 1, U.index) \o <<model>>
                       \o SubSeq(U.stack, U.index + 1, Len(U.stack))
           U1 == [U EXCEPT !.stack = pushed, !.index = U.index + 1]
       IN IF minorChange
            THEN [U1 EXCEPT !.lastModelWithMinorChange = model]
            ELSE [U1 EXCEPT !.awaiting = @ + 1,
                            !.backend = Append(@, [call |-> "markUndoableState",
                                                   model |-> model])]

\* _markUndoableState after the model switch test: the coalescing test, the push and,
\* for a major change, the backend call at which the function is suspended
PushUndoableState(U, model, minorChange) ==
  IF minorChange /\ U.lastModelWithMinorChange = model THEN U
  ELSE LET pushed == Append(SubSeq(U.stack, 1, U.index), model)
           U1 == [U EXCEPT !.stack = pushed, !.index = Len(pushed)]
       IN IF minorChange
            THEN [U1 EXCEPT !.lastModelWithMinorChange = model]
            ELSE [U1 EXCEPT !.awaiting = @ + 1,
                            !.backend = Append(@, [call |-> "markUndoableState",
                                                   model |-> model])]

\* DOMModelUndoStack._markUndoableState(model, minorChange), up to its await
MarkUndoableStateCall(U, model, minorChange) ==
  LET last == U.lastModelWithMinorChange
      U1 == IF last # 0 /\ model # last
              THEN [PushUndoableState(U, last, FALSE) EXCEPT !.lastModelWithMinorChange = 0]
              ELSE U
  IN PushUndoableState(U1, model, minorChange)

\* mutant: undo() does not test for the lower boundary
UndoCallUnchecked(U) ==
  [U EXCEPT !.index = @ - 1,
            !.lastModelWithMinorChange = 0,
            !.backend = Append(@, IF U.index \in DOMAIN U.stack
                                    THEN [call |-> "undo", model |-> U.stack[U.index]]
                                    ELSE [call |-> "TypeError", model |-> 0])]

\* mutant: undo() addresses the entry at the new index
UndoCallBelow(U) ==
  IF U.index = 0 THEN U
  ELSE [U EXCEPT !.index = @ - 1,
                 !.lastModelWithMinorChange = 0,
                 !.backend = Append(@, IF U.index - 1 \in DOMAIN U.stack
                                         THEN [call |-> "undo", model |-> U.stack[U.index - 1]]
                                         ELSE [call |-> "undo", model |-> U.stack[U.index]])]

\* DOMModelUndoStack.undo()
UndoCall(U) ==
  IF U.index = 0 THEN U
  ELSE [U EXCEPT !.index = @ - 1,
                 !.lastModelWithMinorChange = 0,
                 !.backend = Append(@, IF U.index \in DOMAIN U.stack
                                         THEN [call |-> "undo", model |-> U.stack[U.index]]
                                         ELSE [call |-> "TypeError", model |-> 0])]

\* mutant: redo() takes the last entry for the boundary
RedoCallOffByOne(U) ==
  IF U.index >= Len(U.stack) - 1 THEN U
  ELSE [U EXCEPT !.index = @ + 1,
                 !.lastModelWithMinorChange = 0,
                 !.backend = Append(@, [call |-> "redo", model |-> U.stack[U.index + 1]])]

\* DOMModelUndoStack.redo()
RedoCall(U) ==
  IF U.index >= Len(U.stack) THEN U
  ELSE [U EXCEPT !.index = @ + 1,
                 !.lastModelWithMinorChange = 0,
                 !.backend = Append(@, [call |-> "redo", model |-> U.stack[U.index + 1]])]

\* Platform.ArrayUtilities.removeElement(array, element): every occurrence is removed
RemoveElement(array, element) == SelectSeq(array, LAMBDA x : x # element)

\* mutant: _dispose counts the entries of the model in the whole stack
DisposeCallCountsAll(U, model) ==
  LET shift == Cardinality({i \in DOMAIN U.stack : U.stack[i] = model})
  IN [U EXCEPT !.stack = RemoveElement(@, model),
               !.index = IF @ - shift < 0 THEN 0 ELSE @ - shift,
               !.lastModelWithMinorChange = IF @ = model THEN 0 ELSE @]

\* DOMModelUndoStack._dispose(model)
DisposeCall(U, model) ==
  LET shift == Cardinality({i \in 1..U.index : i \in DOMAIN U.stack /\ U.stack[i] = model})
  IN [U EXCEPT !.stack = RemoveElement(@, model),
               !.index = @ - shift,
               !.lastModelWithMinorChange = IF @ = model THEN 0 ELSE @]

CommitUndo(U, op) ==
  /\ stack' = U.stack
  /\ index' = U.index
  /\ lastModelWithMinorChange' = U.lastModelWithMinorChange
  /\ awaiting' = U.awaiting
  /\ undoTurn' = [op |-> op, before |-> index, backend |-> U.backend,
                  previous |-> undoTurn.op, beforePrevious |-> undoTurn.before]
  /\ UNCHANGED routerVars

\* the fields of the undo stack after the step
UndoStateAfter ==
  [stack |-> stack', index |-> index', lastModelWithMinorChange |-> lastModelWithMinorChange',
   awaiting |-> awaiting', backend |-> <<>>]

\* model.markUndoableState(minorChange)
MarkUndoableState(model, minorChange) ==
  /\ CommitUndo(MarkUndoableStateCall(UndoState, model, minorChange), "markUndoableState")
  /\ scenario' = IF scenario.valid /\ Len(scenario.calls) < MaxScenario
                   THEN [scenario EXCEPT !.calls = Append(@, [model |-> model,
                                                              minorChange |-> minorChange])]
                   ELSE [valid |-> FALSE, calls |-> <<>>]
  /\ recentMinor' = IF minorChange THEN model ELSE 0

\* the backend call of a major change completes: this._lastModelWithMinorChange = null
MarkCompleted ==
  /\ awaiting > 0
  /\ CommitUndo([UndoState EXCEPT !.awaiting = @ - 1, !.lastModelWithMinorChange = 0],
                "markUndoableState completed")
  /\ scenario' = [valid |-> FALSE, calls |-> <<>>]
  /\ UNCHANGED recentMinor

Undo ==
  /\ CommitUndo(UndoCall(UndoState), "undo")
  /\ scenario' = [valid |-> FALSE, calls |-> <<>>]
  /\ recentMinor' = 0

Redo ==
  /\ CommitUndo(RedoCall(UndoState), "redo")
  /\ scenario' = [valid |-> FALSE, calls |-> <<>>]
  /\ recentMinor' = 0

\* DOMModel.dispose() and DOMModel._setDocument(): DOMModelUndoStack.instance()._dispose(this)
DisposeModel(model) ==
  /\ CommitUndo(DisposeCall(UndoState, model), "dispose")
  /\ scenario' = [valid |-> FALSE, calls |-> <<>>]
  /\ recentMinor' = 0

\* the proxyConnection argument: none, a connection, a connection whose _onMessage is null
ProxyConnections == {"none", "proxy", "no _onMessage"}

\* the responses a backend can deliver to router r: for a session, with an id that
\* was assigned or with the next one (never assigned), or with no id and no method
Responses(r) ==
  {[sessionId |-> s, id |-> i, method |-> "", error |-> p[1], result |-> p[2],
    compress |-> FALSE, params |-> "{}"] :
     s \in SessionIds, i \in 0..Min(routers[r].lastMessageId, Len(calls)),
     p \in {<<NoError, "result">>, <<BackendError, "undef">>}}

\* --------------------------------------------------- specifications
\* the command path: targets, both call forms, responses, timers
Next ==
  \/ \E t \in TargetIds, p \in {0} \cup TargetIds, s \in SessionIds, k \in BOOLEAN :
       CreateTarget(t, p, s, k)
  \/ \E t \in TargetIds : Dispose(t)
  \/ \E t \in TargetIds, m \in Methods, a \in ArgLists :
       nextCall <= MaxCalls /\ CallPositional(t, m, a)
  \/ \E t \in TargetIds, m \in Methods : nextCall <= MaxCalls /\ Invoke(t, m)
  \/ \E r \in RouterIds : \E m \in Responses(r) : OnMessage(r, m)
  \/ RunTimer

Spec == Init /\ [][Next]_vars

\* the command path with the router's session table also driven directly
\* (registerSession with or without a proxy connection, unregisterSession)
SessionNext ==
  \/ \E t \in TargetIds, p \in {0} \cup TargetIds, s \in SessionIds :
       CreateTarget(t, p, s, FALSE) /\ \A r \in RouterIds : routers'[r].exists => r = 1
  \/ \E t \in TargetIds : Dispose(t)
  \/ \E t \in TargetIds, s \in SessionIds, k \in ProxyConnections :
       RegisterSessionCall(1, t, s, k)
  \/ \E s \in SessionIds : UnregisterSessionCall(1, s)
  \/ \E t \in TargetIds : nextCall <= MaxCalls /\ Invoke(t, "DOM.querySelector")
  \/ \E m \in Responses(1) : OnMessage(1, m)
  \/ RunTimer

SessionSpec == Init /\ [][SessionNext]_vars

\* the session table driven as above, and the transport disconnecting at any time
DisconnectNext ==
  \/ SessionNext
  \/ Disconnect(1)

DisconnectSpec == Init /\ [][DisconnectNext]_vars

\* the invoke form of one debounced method on targets that come and go
InvokeNext ==
  \/ \E t \in TargetIds, p \in {0} \cup TargetIds, s \in SessionIds : CreateTarget(t, p, s, FALSE)
  \/ \E t \in TargetIds : Dispose(t)
  \/ \E t \in TargetIds : nextCall <= MaxInvokes /\ Invoke(t, "DOM.getBoxModel")
  \/ \E r \in RouterIds : \E m \in Responses(r) : OnMessage(r, m)
  \/ RunTimer

InvokeSpec == Init /\ [][InvokeNext]_vars

\* the backend answers a request whose callback is stored on router r
Answer(r) ==
  \E m \in Responses(r) :
    /\ routers[r].sessions[m.sessionId].present
    /\ CallbackOf(routers[r].sessions[m.sessionId].callbacks, m.id) # 0
    /\ OnMessage(r, m)

\* the invoke form of one debounced method, MaxCalls calls; a scheduled timer fires and
\* a backend answers every request it was sent
LiveInvokeNext ==
  \/ \E t \in TargetIds, p \in {0} \cup TargetIds, s \in SessionIds : CreateTarget(t, p, s, FALSE)
  \/ \E t \in TargetIds : Dispose(t)
  \/ \E t \in TargetIds : nextCall <= MaxCalls /\ Invoke(t, "DOM.getBoxModel")
  \/ \E r \in RouterIds : \E m \in Responses(r) : OnMessage(r, m)
  \/ RunTimer

LiveInvokeSpec ==
  /\ Init /\ [][LiveInvokeNext]_vars
  /\ WF_vars(RunTimer)
  /\ \A r \in RouterIds : WF_vars(Answer(r))

\* a burst: calls to one debounced method on one live target, issued while the first
\* call of the burst is unanswered, and the backend's responses
BurstInvoke(t, method) ==
  /\ nextCall <= MaxBurst
  /\ nextCall > 1 => /\ calls[1].target = t
                     /\ calls[1].method = method
                     /\ calls[1].invoked = 0
  /\ Invoke(t, method)

BurstNext ==
  \/ \E t \in TargetIds, p \in {0} \cup TargetIds, s \in SessionIds :
       nextCall = 1 /\ CreateTarget(t, p, s, FALSE)
  \/ \E t \in TargetIds, m \in DebouncedMethods : BurstInvoke(t, m)
  \/ \E r \in RouterIds : \E m \in Responses(r) : OnMessage(r, m)

BurstSpec == Init /\ [][BurstNext]_vars

\* the dispatchers registered on all targets, counted per registration
RECURSIVE CountRegistrations(_)
CountRegistrations(slots) ==
  IF slots = {} THEN 0
  ELSE LET slot == CHOOSE x \in slots : TRUE
       IN Len(dispatchers[slot[1]][slot[2]]) + CountRegistrations(slots \ {slot})
Registrations == CountRegistrations(TargetIds \X EventDomains)

\* the event path: one router, its sessions, the targets' dispatchers, events
EventNext ==
  \/ \E t \in TargetIds, p \in {0} \cup TargetIds, s \in SessionIds :
       CreateTarget(t, p, s, FALSE) /\ \A r \in RouterIds : routers'[r].exists => r = 1
  \/ \E t \in TargetIds, s \in SessionIds, k \in ProxyConnections :
       RegisterSessionCall(1, t, s, k)
  \/ \E t \in TargetIds, d \in EventDomains, h \in HandlerIds :
       Registrations < MaxHandlers /\ RegisterDispatcher(t, d, h)
  \/ \E t \in TargetIds, h \in HandlerIds : UnregisterDispatcher(t, h)
  \/ \E m \in Events(1) : OnMessage(1, m)

EventSpec == Init /\ [][EventNext]_vars

\* one router receiving responses and events of every kind, well-formed or not, while
\* commands are pending and a dispatcher is registered
MessageNext ==
  \/ \E t \in TargetIds, p \in {0} \cup TargetIds, s \in SessionIds :
       CreateTarget(t, p, s, FALSE) /\ \A r \in RouterIds : routers'[r].exists => r = 1
  \/ \E t \in TargetIds : Dispose(t)
  \/ \E s \in SessionIds : UnregisterSessionCall(1, s)
  \/ \E t \in TargetIds : nextCall <= MaxCalls /\ Invoke(t, "DOM.querySelector")
  \/ \E t \in TargetIds, h \in HandlerIds :
       Registrations < 1 /\ RegisterDispatcher(t, "DOM", h)
  \/ \E m \in Responses(1) \cup Events(1) : OnMessage(1, m)
  \/ RunTimer

MessageSpec == Init /\ [][MessageNext]_vars

\* the drain path: one router, commands of a plain and of a long-polling method,
\* continuations queued at any time
DrainNext ==
  \/ \E t \in TargetIds, p \in {0} \cup TargetIds, s \in SessionIds :
       CreateTarget(t, p, s, FALSE) /\ \A r \in RouterIds : routers'[r].exists => r = 1
  \/ \E t \in TargetIds : Dispose(t)
  \/ \E t \in TargetIds, m \in {"DOM.querySelector"} \cup LongPollingMethods :
       nextCall <= MaxCalls /\ Invoke(t, m)
  \/ \E m \in Responses(1) : OnMessage(1, m)
  \/ routers[1].queued < MaxScripts /\ RunAfterPendingDispatches(1)
  \/ RunTimer
  \/ RunDrainCheck

DrainSpec == Init /\ [][DrainNext]_vars

\* the undo stack: calls from any model, backend calls completing at any time
UndoNext ==
  \/ \E model \in ModelIds, minorChange \in BOOLEAN :
       /\ index + 2 <= MaxStack
       /\ awaiting < MaxAwaiting
       /\ MarkUndoableState(model, minorChange)
  \/ MarkCompleted
  \/ Undo
  \/ Redo
  \/ \E model \in ModelIds : DisposeModel(model)

UndoSpec == Init /\ [][UndoNext]_vars

\* setTimeout guarantees that a scheduled callback fires
FairSpec == Spec /\ WF_vars(RunTimer)


\* ------------------------------------------------------------ claims
\* the calls whose callback is stored in a registered session of router r
PendingCalls(r) ==
  {p[2] : p \in UNION {routers[r].sessions[s].callbacks : s \in SessionIds}}

\* the same set in the state the step leads to
PendingCallsAfter(r) ==
  {p[2] : p \in UNION {routers'[r].sessions[s].callbacks : s \in SessionIds}}

\* C1: on one router every sendMessage call, dropped or not, gets an id greater than
\* every id assigned before on that router; the first id is 1; the ids are shared by
\* the router's sessions and none is assigned twice.
C1_MessageIdsStrictlyIncrease ==
  \A r \in RouterIds :
    LET a == routers[r].assigned
    IN /\ Len(a) > 0 => a[1] = 1
       /\ \A i, j \in 1..Len(a) : i < j => a[i] < a[j]
       /\ \A c, d \in CallIds :
            (c # d /\ calls[c].router = r /\ calls[d].router = r) =>
              calls[c].messageId # calls[d].messageId
       /\ \A c \in CallIds : calls[c].router = r => \E i \in 1..Len(a) : a[i] = calls[c].messageId

\* two ids assigned on one router, one of them to a call dropped for an unknown session
C1_Witness ==
  \E r \in RouterIds, c, d \in CallIds :
    /\ c # d /\ calls[c].router = r /\ calls[d].router = r
    /\ calls[c].written /\ ~calls[d].written
    /\ calls[c].sessionId # calls[d].sessionId

\* C2: a response (sessionId, id) runs only the callback that sendMessage stored for that
\* session under that id, on the router that received it, and hands it the response's
\* own error and result, whatever else is pending and in whatever order responses come.
C2_ResponseRunsOwnCallback ==
  [][(turn'.op = "onMessage" /\ turn'.invoked # <<>>) =>
       \A r \in RouterIds : \A m \in Responses(r) :
         OnMessage(r, m) =>
           \A k \in 1..Len(turn'.invoked) :
             LET e == turn'.invoked[k]
             IN /\ k = 1
                /\ calls[e.call].router = r
                /\ calls[e.call].sessionId = m.sessionId
                /\ calls[e.call].messageId = m.id
                /\ <<m.id, e.call>> \in routers[r].sessions[m.sessionId].callbacks
                /\ e.error = m.error
                /\ e.result = OrNull(m.result)]_vars

\* the later of two pending commands is answered first, with an error, while the
\* earlier one, pending in another session, stays pending
C2_Witness ==
  /\ turn.op = "onMessage"
  /\ Len(turn.invoked) = 1
  /\ turn.invoked[1].error = BackendError
  /\ \E r \in RouterIds : \E c \in PendingCalls(r) :
       /\ calls[turn.invoked[1].call].router = r
       /\ c < turn.invoked[1].call
       /\ calls[c].sessionId # calls[turn.invoked[1].call].sessionId


\* no callback is stored under (sessionId, id) on router r
NoPendingCallback(r, sessionId, id) ==
  ~\E p \in routers[r].sessions[sessionId].callbacks : p[1] = id

\* C3 as claimed: a response whose (sessionId, id) matches no pending callback has a
\* protocol error reported and runs no callback.
C3_UnmatchedResponseIsReported ==
  [][turn'.op = "onMessage" =>
       \A r \in RouterIds : \A m \in Responses(r) :
         (m.id # 0 /\ NoPendingCallback(r, m.sessionId, m.id) /\ OnMessage(r, m)) =>
           (turn'.errors # {} /\ turn'.invoked = <<>>)]_vars

\* C3 amended: such a response runs no callback, and a protocol error is reported
\* unless a session of the router has a proxy connection that takes the message.
C3_UnmatchedResponseIsReportedUnlessProxied ==
  [][turn'.op = "onMessage" =>
       \A r \in RouterIds : \A m \in Responses(r) :
         (m.id # 0 /\ NoPendingCallback(r, m.sessionId, m.id)) =>
           \/ /\ turn'.invoked = <<>>
              /\ turn'.resolved = <<>>
              /\ calls' = calls
              /\ ForwardedTo(routers[r]) = {} => turn'.errors # {}
           \/ ~OnMessage(r, m)]_vars

\* a response for an id that was answered before is reported as a wrong id
C3_Witness ==
  /\ turn.op = "onMessage"
  /\ turn.errors = {"wrong id"}
  /\ turn.invoked = <<>>
  /\ \E c \in CallIds : calls[c].written /\ calls[c].invoked = 1 /\ calls[c].failing = 0

\* the timer entries that hold call c's callback with the unregistering error
UnregisterTimers(c) ==
  {i \in DOMAIN timers : timers[i] = [call |-> c, error |-> UnregisterSessionError]}

\* C4: unregisterSession(s) removes the session, and every callback pending in it is
\* scheduled once and then run exactly once with the "Session is unregistering" error
\* (code -32001) and a null result.
C4_UnregisterFailsPendingCallbacksOnce ==
  /\ [](\A c \in CallIds :
          /\ calls[c].failing <= 1
          /\ calls[c].unregistered + Cardinality(UnregisterTimers(c)) = calls[c].failing
          /\ calls[c].failing = 1 => \A r \in RouterIds : c \notin PendingCalls(r))
  /\ [](\A k \in 1..Len(turn.invoked) :
          turn.invoked[k].error.message = "Session is unregistering" =>
            /\ turn.invoked[k].error.code = -32001
            /\ turn.invoked[k].result = "null")
  /\ [][\A t \in TargetIds :
          (Dispose(t) /\ targets[t].router # 0) =>
            /\ ~routers'[targets[t].router].sessions[targets[t].sessionId].present
            /\ \A p \in routers[targets[t].router].sessions[targets[t].sessionId].callbacks :
                 calls'[p[2]].failing = 1]_vars
  /\ \A c \in CallIds : (calls[c].failing = 1) ~> (calls[c].unregistered = 1)

\* two callbacks were pending when their session was unregistered and both have run
C4_Witness ==
  /\ \E c, d \in CallIds : /\ c # d
                           /\ calls[c].unregistered = 1 /\ calls[d].unregistered = 1
                           /\ calls[c].invoked = 1 /\ calls[d].invoked = 1
  /\ timers = <<>>

\* C7: a command that passes validation on a target without a router writes nothing to
\* any connection, takes no message id, and has its callback run with the
\* connection-closed error (code -32001) and a null result.
C7_NoRouterCommandFailsClosed ==
  /\ [](\A c \in CallIds :
          (calls[c].kind # "none" /\ ~calls[c].issuedLive) =>
            (calls[c].messageId = 0 /\ calls[c].router = 0 /\ ~calls[c].written))
  /\ [](\A k \in 1..Len(turn.invoked) :
          ~calls[turn.invoked[k].call].issuedLive =>
            /\ turn.invoked[k].error = ConnectionError
            /\ turn.invoked[k].error.code = -32001
            /\ turn.invoked[k].result = "null")
  /\ [][(nextCall' = nextCall + 1 /\ ~calls'[nextCall].issuedLive) =>
          /\ wire' = wire
          /\ routers' = routers
          /\ timers' = Append(timers, [call |-> nextCall, error |-> ConnectionError])]_vars
  /\ [][(turn'.op = "timer" /\ ~calls[Head(timers).call].issuedLive) =>
          (wire' = wire /\ routers' = routers)]_vars
  /\ \A c \in CallIds :
       (calls[c].kind # "none" /\ ~calls[c].issuedLive) ~> (calls[c].invoked >= 1)

\* a positional and an invoke command, one of them debounced, were issued on a disposed
\* target and both callbacks have run
C7_Witness ==
  \E c, d \in CallIds :
    /\ calls[c].kind = "positional" /\ calls[d].kind = "invoke"
    /\ calls[c].method # calls[d].method
    /\ ~calls[c].issuedLive /\ ~calls[d].issuedLive
    /\ calls[c].invoked = 1 /\ calls[d].invoked = 1

\* the three ways a positional call fails validation, read off the schema
MissingRequired(parameters, args) ==
  \E i \in 1..Len(parameters) : ~parameters[i].optional /\ Len(args) < i
TypeMismatch(parameters, args) ==
  \E i \in 1..Min(Len(parameters), Len(args)) :
    /\ args[i] # parameters[i].type
    /\ ~(parameters[i].optional /\ args[i] = "undefined")
ExtraArguments(parameters, args) == Len(args) > Len(parameters)

\* C8: a positional call whose arguments miss a required one, have a wrong type or
\* are too many resolves to null, reports to the error sink, sends nothing and takes
\* no message id.
C8_InvalidPositionalCallResolvesNull ==
  [][turn'.op = "command" =>
       \A t \in TargetIds, m \in Methods, a \in ArgLists :
         (/\ CallPositional(t, m, a)
          /\ \/ MissingRequired(CommandParameters(m), a)
             \/ TypeMismatch(CommandParameters(m), a)
             \/ ExtraArguments(CommandParameters(m), a)) =>
           /\ turn'.sink # "none"
           /\ turn'.resolved = <<[call |-> 0, value |-> "null"]>>
           /\ wire' = wire
           /\ routers' = routers
           /\ timers' = timers
           /\ calls' = calls
           /\ nextCall' = nextCall]_vars

\* a call with too many arguments was rejected on a live target that has a command pending
C8_Witness ==
  /\ turn.op = "command"
  /\ turn.sink = "extra arguments"
  /\ turn.resolved = <<[call |-> 0, value |-> "null"]>>
  /\ \E r \in RouterIds : PendingCalls(r) # {}

\* C10: dispose() on a disposed target changes nothing: no session is unregistered, also
\* not one that another target has registered since under the same sessionId, no
\* callback is failed and isDisposed() stays true.
C10_SecondDisposeIsNoOp ==
  [][\A t \in TargetIds :
       (Dispose(t) /\ targets[t].router = 0) =>
         /\ targets'[t].router = 0
         /\ UNCHANGED <<targets, routers, wire, timers, calls, nextCall,
                        unresolvedMessages, cachedMessages, dispatchers>>]_vars

\* dispose() ran on a disposed target whose sessionId another, live target has registered
\* in the meantime, while a callback is pending on the router
C10_Witness ==
  /\ turn.op = "dispose"
  /\ \E t, u \in TargetIds :
       /\ t # u /\ targets[t].created /\ targets[t].router = 0
       /\ targets[u].created /\ targets[u].router # 0
       /\ \A v \in TargetIds \ {t} : targets[v].created => targets[v].router # 0
       /\ LET session == routers[targets[u].router].sessions[targets[t].sessionId]
          IN session.present /\ session.target = u
       /\ PendingCalls(targets[u].router) # {}


\* the requests for a method that were written to a connection and whose callback is
\* still stored in a session
Outstanding(method) ==
  {c \in CallIds : /\ calls[c].method = method
                   /\ calls[c].written
                   /\ \E r \in RouterIds : c \in PendingCalls(r)}

\* C5 as claimed: at any time at most one request of a debounced method is on the wire
\* and unanswered.
C5_AtMostOneDebouncedRequestOutstanding ==
  \A method \in DebouncedMethods : Cardinality(Outstanding(method)) <= 1

\* the calls issued so far
Issued == nextCall - 1

\* every request that was sent has been answered
BurstAnswered ==
  /\ Issued >= 1
  /\ calls[1].invoked = 1
  /\ \A r \in RouterIds : PendingCalls(r) = {}

\* C6: a first invoke of a debounced method and n >= 2 more before its answer put two
\* messages on the wire, the first call's and then the last call's; the cache holds only
\* the most recent call, the calls in between are never sent nor their callbacks run,
\* and the first and the last call resolve once.
C6_BurstSendsFirstAndLast ==
  /\ \A method \in DebouncedMethods : cachedMessages[method] \in {0, Issued}
  /\ \A c \in 2..(Issued - 1) :
       ~calls[c].written /\ calls[c].messageId = 0 /\ calls[c].invoked = 0 /\ ~calls[c].resolved
  /\ \A r \in RouterIds :
       /\ Len(wire[r]) <= 2
       /\ Len(wire[r]) >= 1 => wire[r][1].call = 1
       /\ Len(wire[r]) = 2 => wire[r][2].call = Issued
  /\ \A c \in {1, Issued} : Issued >= 1 => calls[c].invoked <= 1
  /\ (Issued >= 3 /\ BurstAnswered) =>
       LET r == calls[1].router
       IN /\ Len(wire[r]) = 2
          /\ \A q \in RouterIds \ {r} : wire[q] = <<>>
          /\ wire[r][1].method = calls[1].method /\ wire[r][2].method = calls[1].method
          /\ calls[1].invoked = 1 /\ calls[1].resolved
          /\ calls[Issued].invoked = 1 /\ calls[Issued].resolved

\* a burst of MaxBurst calls is over: both requests were answered, the last with an error
C6_Witness ==
  /\ Issued = MaxBurst
  /\ BurstAnswered
  /\ calls[Issued].invoked = 1
  /\ turn.op = "onMessage"
  /\ Len(turn.invoked) = 1 /\ turn.invoked[1].call = Issued /\ turn.invoked[1].error = BackendError


\* the handlers of a target's domain that have a property named like the event, as
\* registered: oldest first, one entry per registration
Implementing(t, domain, event) ==
  SelectSeq(dispatchers[t][domain], LAMBDA h : HandlerImplements(h, event))

\* the handlers called in a turn, in the order of the calls
Called(deliveries) == [i \in 1..Len(deliveries) |-> deliveries[i].handler]

\* C9 as claimed: an event reaches, in the turn that receives it, every handler that is
\* registered for its domain on the owning session's target and has the event's property,
\* once each and in registration order; without handlers dispatch does nothing.
C9_EventReachesEveryHandler ==
  [][turn'.op = "onMessage" =>
       \A r \in RouterIds : \A m \in Events(r) :
         LET session == routers[r].sessions[m.sessionId]
             domain == DomainOf(m.method)
         IN (session.present /\ domain \in EventDomains) =>
              \/ Called(turn'.delivered) = Implementing(session.target, domain, UnqualifiedOf(m.method))
              \/ ~OnMessage(r, m)]_vars

\* C9 amended: the same for an event that registerEvent made known, in a session without
\* a proxy connection: the handlers are called once per registration, oldest first,
\* with the event's parameters, decompressed if the message is compressed. Without
\* handlers for the domain nothing is delivered and nothing is reported.
C9_RegisteredEventReachesEveryHandler ==
  [][turn'.op = "onMessage" =>
       \A r \in RouterIds : \A m \in Events(r) :
         LET session == routers[r].sessions[m.sessionId]
             domain == DomainOf(m.method)
             event == UnqualifiedOf(m.method)
         IN (/\ session.present /\ session.proxyConnection = "none"
             /\ domain \in EventDomains) =>
              \/ /\ m.method \in RegisteredEvents =>
                      /\ Called(turn'.delivered) = Implementing(session.target, domain, event)
                      /\ \A i \in 1..Len(turn'.delivered) :
                           /\ turn'.delivered[i].event = event
                           /\ turn'.delivered[i].params = "{x:1}"
                 /\ dispatchers[session.target][domain] = <<>> =>
                      (turn'.delivered = <<>> /\ turn'.warnings = {})
                 /\ UNCHANGED <<targets, routers, wire, timers, calls, dispatchers>>
              \/ ~OnMessage(r, m)]_vars

\* a compressed event reached two handlers of a child session's target, the later
\* registration of the two first in name order
C9_Witness ==
  /\ turn.op = "onMessage"
  /\ Called(turn.delivered) = <<"h2", "h1">>
  /\ turn.delivered[1].event = "documentUpdated"
  /\ \E t \in TargetIds : /\ dispatchers[t]["DOM"] = <<"h2", "h1">>
                          /\ targets[t].sessionId = "s1"
                          /\ routers[1].sessions["s1"].target = t


\* C11 as claimed: from an empty undo stack, three minor markUndoableState calls on a
\* model and then a major one on another model leave two entries, the first model's
\* and the second model's, and the index at 2.
C11_ThreeMinorsThenMajorLeaveTwoEntries ==
  \A a, b \in ModelIds :
    (/\ a # b
     /\ scenario.valid
     /\ scenario.calls = <<[model |-> a, minorChange |-> TRUE],
                           [model |-> a, minorChange |-> TRUE],
                           [model |-> a, minorChange |-> TRUE],
                           [model |-> b, minorChange |-> FALSE]>>)
      => (stack = <<a, b>> /\ index = 2)

\* C12 as claimed: in every state, undo() and then at once redo() leave the index where
\* it was before the undo().
C12_UndoThenRedoRestoresIndex ==
  (undoTurn.op = "redo" /\ undoTurn.previous = "undo") => index = undoTurn.beforePrevious

\* C12 amended: the same where the undo() had an entry to step over (index > 0) or the
\* stack is empty.
C12_UndoThenRedoRestoresIndexAboveZero ==
  (/\ undoTurn.op = "redo" /\ undoTurn.previous = "undo"
   /\ undoTurn.beforePrevious > 0 \/ stack = <<>>) => index = undoTurn.beforePrevious

\* undo() stepped back over the second of three entries, leaving one to redo above it,
\* and redo() stepped forward again
C12_Witness ==
  /\ undoTurn.op = "redo" /\ undoTurn.previous = "undo"
  /\ undoTurn.beforePrevious = 2
  /\ undoTurn.before = 1
  /\ index = 2
  /\ Len(stack) = 3
  /\ undoTurn.backend = <<[call |-> "redo", model |-> stack[2]]>>


\* the sessions of router r that were registered with a proxy connection of the given kinds
ProxySessions(r, kinds) ==
  {s \in SessionIds : routers[r].sessions[s].present
                      /\ routers[r].sessions[s].proxyConnection \in kinds}

\* C13 as claimed: while a session of the router has a proxy connection, every message
\* is forwarded to it, and a message for an unregistered session is dropped without a
\* wrong-session report.
C13_ProxyGetsEveryMessage ==
  [][turn'.op = "onMessage" =>
       \A r \in RouterIds : \A m \in Responses(r) :
         ProxySessions(r, {"proxy", "no _onMessage"}) # {} =>
           \/ /\ turn'.forwarded >= 1
              /\ ~routers[r].sessions[m.sessionId].present =>
                   /\ "wrong session id" \notin turn'.errors
                   /\ turn'.invoked = <<>>
                   /\ routers' = routers /\ calls' = calls /\ timers' = timers
           \/ ~OnMessage(r, m)]_vars

\* C13 amended: the same while a session of the router has a proxy connection whose
\* _onMessage handler is set; the message goes to every such proxy connection.
C13_ProxyWithHandlerGetsEveryMessage ==
  [][turn'.op = "onMessage" =>
       \A r \in RouterIds : \A m \in Responses(r) :
         ProxySessions(r, {"proxy"}) # {} =>
           \/ /\ turn'.forwarded = Cardinality(ProxySessions(r, {"proxy"}))
              /\ ~routers[r].sessions[m.sessionId].present =>
                   /\ "wrong session id" \notin turn'.errors
                   /\ turn'.invoked = <<>>
                   /\ routers' = routers /\ calls' = calls /\ timers' = timers
           \/ ~OnMessage(r, m)]_vars

\* a message arrived while the child session had a proxy connection and the root session
\* was not registered, with a command pending: it was forwarded and nothing was reported
C13_Witness ==
  /\ turn.op = "onMessage"
  /\ turn.forwarded = 1
  /\ turn.errors = {}
  /\ turn.invoked = <<>>
  /\ ProxySessions(1, {"proxy"}) = {"s1"}
  /\ ~routers[1].sessions[""].present
  /\ \E c \in CallIds : calls[c].written /\ calls[c].invoked = 0


\* the commands that router r sent for a method that is not long-polling and that no
\* response has answered
UnansweredNonLongPolling(r) ==
  {c \in CallIds : /\ calls[c].router = r
                   /\ calls[c].method \notin LongPollingMethods
                   /\ ~(calls[c].invoked >= 1 /\ calls[c].failing = 0)}

\* C14: a drain check runs the queued continuations only when no command of a method
\* that is not long-polling awaits its response; requests of long-polling methods that
\* are outstanding do not hold it back; a check that finds such a command sent since it
\* was armed runs nothing and arms the next check.
C14_DrainWaitsForNonLongPollingOnly ==
  [][turn'.op = "drain" =>
       LET r == Head(timers).drain
           awaited == {c \in PendingCalls(r) : calls[c].method \notin LongPollingMethods}
       IN /\ awaited # {} =>
               /\ turn'.ran = <<>>
               /\ routers'[r].pendingScripts = routers[r].pendingScripts
               /\ timers' = Append(Tail(timers), [drain |-> r])
          /\ UnansweredNonLongPolling(r) = {} =>
               /\ turn'.ran = routers[r].pendingScripts
               /\ routers'[r].pendingScripts = <<>>]_vars

\* a drain check ran two continuations while a long-polling request was outstanding
C14_Witness ==
  /\ turn.op = "drain"
  /\ turn.ran = <<1, 2>>
  /\ \E c \in PendingCalls(1) : calls[c].method \in LongPollingMethods

\* the step constructed target t and registered it under sessionId
Constructed(t, sessionId) ==
  /\ turn'.op = "constructor"
  /\ targets'[t].created /\ targets'[t].sessionId = sessionId
  /\ targets'[t].router # 0
  /\ routers'[targets'[t].router].sessions[sessionId].present
  /\ routers'[targets'[t].router].sessions[sessionId].target = t

\* the step is a construction that threw: no target, router or session came to exist
ConstructionThrew(t) ==
  /\ turn'.op = "constructor throws"
  /\ ~targets'[t].created
  /\ routers' = routers

\* C15 (as stated): construction succeeds with a parent target and a sessionId only,
\* with a connection only, and with nothing for the root target; it throws with a
\* connection and a sessionId together and with a sessionId but no parent target.
C15_ConstructionAcceptsExactlyOneSource ==
  [][\A t \in TargetIds, p \in {0} \cup TargetIds, s \in SessionIds, k \in BOOLEAN :
       CreateTarget(t, p, s, k) =>
         /\ (p # 0 /\ s # "" /\ ~k) => Constructed(t, s)
         /\ (k /\ s = "") => Constructed(t, s)
         /\ (p = 0 /\ s = "" /\ ~k) => Constructed(t, s)
         /\ (k /\ s # "") => ConstructionThrew(t)
         /\ (p = 0 /\ s # "") => ConstructionThrew(t)]_vars

\* C15 (amended): construction without a parent target succeeds only with neither a
\* connection nor a sessionId; construction with a parent target succeeds with a
\* sessionId only, with a connection only and with neither; every other combination
\* throws and leaves no target, router or session behind.
C15_ConstructionNeedsParentForConnection ==
  [][\A t \in TargetIds, p \in {0} \cup TargetIds, s \in SessionIds, k \in BOOLEAN :
       CreateTarget(t, p, s, k) =>
         IF (p = 0 /\ ~k /\ s = "") \/ (p # 0 /\ ~(k /\ s # ""))
           THEN Constructed(t, s)
           ELSE ConstructionThrew(t)]_vars

\* a child target was constructed from a parent target and a sessionId and shares the
\* parent's router
C15_Witness ==
  /\ turn.op = "constructor"
  /\ \E t, u \in TargetIds :
       /\ u < t /\ targets[t].created /\ targets[u].created
       /\ targets[t].sessionId # "" /\ targets[u].router # 0
       /\ targets[t].router = targets[u].router

\* the timers that turn a step added to the setTimeout queue
ScheduledBy(before, after) == SubSeq(after, Len(before) + 1, Len(after))

\* C16: unregisterSession, dispose() and a command issued on a target with no router
\* invoke no callback before they return: the failure of every callback stored in the
\* session, and the failure of the command, is scheduled and the callback runs in a
\* later turn (a timer turn); only a timer turn hands a synthesized error to a callback.
C16_SynthesizedFailuresAreDeferred ==
  [][/\ turn'.op \in {"dispose", "unregisterSession", "command"} =>
          /\ turn'.invoked = <<>>
          /\ turn'.resolved = <<>> \/ turn'.sink # "none"
          /\ \A c \in CallIds : calls'[c].invoked = calls[c].invoked
     /\ turn'.op \in {"dispose", "unregisterSession"} =>
          \A r \in RouterIds :
            \A c \in PendingCalls(r) :
              c \notin PendingCallsAfter(r) =>
                \E i \in 1..Len(ScheduledBy(timers, timers')) :
                  ScheduledBy(timers, timers')[i] = [call |-> c, error |-> UnregisterSessionError]
     /\ \A t \in TargetIds :
          (turn'.op = "command" /\ nextCall' = nextCall + 1 /\ calls'[nextCall].target = t
             /\ targets[t].router = 0) =>
            ScheduledBy(timers, timers') = <<[call |-> nextCall, error |-> ConnectionError]>>
     /\ \A i \in 1..Len(turn'.invoked) :
          turn'.invoked[i].error \in {UnregisterSessionError, ConnectionError} =>
            turn'.op = "timer"]_vars

\* a session was unregistered while a callback was stored in it and a command was
\* issued on a target with no router: both failures wait in the timer queue, neither
\* callback has run
C16_Witness ==
  /\ turn.op \in {"dispose", "unregisterSession", "command"}
  /\ \E i, j \in 1..Len(timers) :
       /\ "call" \in DOMAIN timers[i] /\ "call" \in DOMAIN timers[j]
       /\ timers[i].error = UnregisterSessionError /\ calls[timers[i].call].invoked = 0
       /\ timers[j].error = ConnectionError /\ calls[timers[j].call].invoked = 0

\* the calls that sendMessage dropped because their session was not registered
DroppedCalls == {c \in CallIds : calls[c].router # 0 /\ ~calls[c].written}

\* C18: a command that sendMessage received for a session that is not registered is
\* never written to the connection, its callback is stored nowhere and scheduled
\* nowhere, and it has not run, in the turn of the call or in any later one.
C18_UnknownSessionCommandIsDropped ==
  \A c \in DroppedCalls :
    /\ calls[c].invoked = 0
    /\ ~calls[c].resolved
    /\ \A r \in RouterIds : /\ c \notin PendingCalls(r)
                            /\ \A i \in 1..Len(wire[r]) : wire[r][i].call # c
    /\ \A i \in 1..Len(timers) : "call" \in DOMAIN timers[i] => timers[i].call # c
    /\ \A i \in 1..Len(turn.invoked) : turn.invoked[i].call # c

\* a command was dropped, its session was registered again afterwards and the router
\* received a response in a later turn
C18_Witness ==
  /\ turn.op = "onMessage"
  /\ \E c \in DroppedCalls :
       /\ routers[calls[c].router].sessions[calls[c].sessionId].present
       /\ routers[calls[c].router].lastMessageId > calls[c].messageId

\* the failures that unregistering session sessionId of router r schedules
FailuresOf(r, sessionId) ==
  LET cs == CallbackValues(routers[r].sessions[sessionId].callbacks)
  IN [i \in 1..Len(cs) |-> [call |-> cs[i], error |-> UnregisterSessionError]]

\* the step changes nothing but the turn log
NothingChanges ==
  /\ routers' = routers /\ targets' = targets /\ timers' = timers
  /\ calls' = calls /\ wire' = wire /\ turn'.invoked = <<>>

\* C19 (as stated): on disconnect the empty-string session of the router is
\* unregistered, its target is disposed and its callbacks are failed, every other
\* session stays as it was and no callback runs; with no empty-string session
\* registered the disconnect changes nothing.
C19_DisconnectFailsRootSessionOnly ==
  [][\A r \in RouterIds :
       Disconnect(r) =>
         IF routers[r].sessions[""].present
           THEN /\ ~routers'[r].sessions[""].present
                /\ targets'[routers[r].sessions[""].target].router = 0
                /\ ScheduledBy(timers, timers') = FailuresOf(r, "")
                /\ \A s \in SessionIds \ {""} :
                     routers'[r].sessions[s] = routers[r].sessions[s]
                /\ turn'.invoked = <<>>
           ELSE NothingChanges]_vars

\* C19 (amended): on disconnect the target registered under the empty-string session
\* is disposed and no other target is: if it still has a router, the session
\* registered under that target's own session id is unregistered and the callbacks of
\* that session are failed in a later turn, every other session stays as it was and
\* no callback runs in the step; with no empty-string session registered, or with its
\* target disposed before, the disconnect changes nothing.
C19_DisconnectDisposesRootTargetOnly ==
  [][\A r \in RouterIds :
       Disconnect(r) =>
         LET session == routers[r].sessions[""]
             t == session.target
         IN IF session.present /\ targets[t].router # 0
              THEN LET q == targets[t].router
                       own == targets[t].sessionId
                   IN /\ targets'[t].router = 0
                      /\ \A u \in TargetIds \ {t} : targets'[u] = targets[u]
                      /\ ~routers'[q].sessions[own].present
                      /\ ScheduledBy(timers, timers') = FailuresOf(q, own)
                      /\ \A x \in RouterIds, s \in SessionIds :
                           <<x, s>> # <<q, own>> =>
                             routers'[x].sessions[s] = routers[x].sessions[s]
                      /\ turn'.invoked = <<>>
                      /\ calls' = [c \in CallIds |->
                                    IF \E p \in routers[q].sessions[own].callbacks : p[2] = c
                                      THEN [calls[c] EXCEPT !.failing = Min(@ + 1, 2)]
                                      ELSE calls[c]]
              ELSE NothingChanges]_vars

\* a disconnect unregistered the root session while a callback was stored in it; the
\* child session is still registered with its own callback, which is not scheduled
C19_Witness ==
  /\ turn.op = "disconnect"
  /\ ~routers[1].sessions[""].present
  /\ routers[1].sessions["s1"].present
  /\ \E c, d \in CallIds :
       /\ c \in PendingCalls(1) /\ calls[c].sessionId = "s1" /\ calls[c].failing = 0
       /\ calls[d].sessionId = "" /\ calls[d].failing = 1 /\ calls[d].invoked = 0
       /\ timers = <<[call |-> d, error |-> UnregisterSessionError]>>

\* C20: when a response answers the outstanding request of a debounced method, a cached
\* call, if there is one, is handed to sendMessage in the same turn, the method is
\* marked outstanding and the cache is empty; with no cached call the method is idle
\* after the turn: no outstanding marker, empty cache.
C20_AnswerReleasesCachedCall ==
  [][turn'.op = "onMessage" =>
       \A i \in 1..Len(turn'.invoked) :
         LET c == turn'.invoked[i].call
             method == calls[c].method
             cached == cachedMessages[method]
         IN (calls[c].kind = "invoke" /\ method \in DebouncedMethods) =>
              IF cached # 0
                THEN /\ calls[cached].messageId = 0
                     /\ calls'[cached].messageId # 0
                     /\ unresolvedMessages'[method] = 1
                     /\ cachedMessages'[method] = 0
                ELSE /\ unresolvedMessages'[method] = 0
                     /\ cachedMessages'[method] = 0]_vars

\* call c of a debounced method was put in the coalescing cache and replaced there by
\* a newer call before it was sent
Superseded(c) ==
  /\ calls[c].kind = "invoke" /\ calls[c].method \in DebouncedMethods
  /\ calls[c].issuedLive
  /\ calls[c].messageId = 0
  /\ cachedMessages[calls[c].method] # c

\* C17: every invoke call that is made resolves, with a reply or with an error value,
\* unless a newer call to the same debounced method supersedes it; timers fire and the
\* backend answers every request it receives.
C17_EveryInvokeEventuallyResolves ==
  \A c \in 1..MaxCalls :
    [](calls[c].kind = "invoke" => <>(calls[c].resolved \/ Superseded(c)))

\* C21: a callback that sendMessage recorded is invoked at most once: after a matching
\* response or unregisterSession removed it, no duplicate response, no response that
\* arrives after the session was unregistered and no later turn invokes it again.
C21_RecordedCallbackRunsAtMostOnce ==
  \A c \in CallIds : calls[c].written => calls[c].invoked <= 1

\* the SessionRouter objects that exist
Routers == {r \in RouterIds : routers[r].exists}
RoutersAfter == {r \in RouterIds : routers'[r].exists}

\* C22 (as stated): a target constructed with a parent target and a non-empty sessionId
\* has its parent's router and is registered on it under that sessionId; the
\* construction creates no router.
C22_ChildUsesParentRouter ==
  [][\A t, p \in TargetIds, s \in SessionIds \ {""} :
       CreateTarget(t, p, s, FALSE) =>
         /\ targets'[t].router = targets[p].router
         /\ targets'[t].router # 0
         /\ routers'[targets'[t].router].sessions[s].present
         /\ routers'[targets'[t].router].sessions[s].target = t
         /\ RoutersAfter = Routers]_vars

\* C22 (amended): a target constructed with a non-empty sessionId and a parent target
\* that has a router has that router and is registered on it under the sessionId, and
\* no router is created; when the parent target was disposed before, a new router is
\* created for the target and it is registered there.
C22_ChildUsesLiveParentRouter ==
  [][\A t, p \in TargetIds, s \in SessionIds \ {""} :
       CreateTarget(t, p, s, FALSE) =>
         /\ targets'[t].router # 0
         /\ routers'[targets'[t].router].sessions[s].present
         /\ routers'[targets'[t].router].sessions[s].target = t
         /\ IF targets[p].router # 0
              THEN /\ targets'[t].router = targets[p].router
                   /\ RoutersAfter = Routers
              ELSE /\ targets'[t].router \notin Routers
                   /\ RoutersAfter = Routers \cup {targets'[t].router}
                   /\ \A x \in SessionIds \ {s} :
                        ~routers'[targets'[t].router].sessions[x].present]_vars

\* a child target was constructed on its parent's router: one router exists and holds
\* the parent's session and the child's
C22_Witness ==
  /\ turn.op = "constructor"
  /\ Routers = {1}
  /\ targets[1].router = 1 /\ targets[2].router = 1
  /\ targets[1].sessionId = "" /\ targets[2].sessionId = "s1"
  /\ routers[1].sessions[""].target = 1
  /\ routers[1].sessions["s1"].target = 2

\* message m is malformed or unroutable on router r: its session is not registered,
\* it is a response whose id has no pending callback, it has neither id nor method, or
\* it is an event of a domain no dispatcher manager exists for
Unroutable(r, m) ==
  LET session == routers[r].sessions[m.sessionId]
  IN \/ ~session.present
     \/ /\ session.present /\ session.proxyConnection = "none"
        /\ \/ m.id # 0 /\ \A p \in session.callbacks : p[1] # m.id
           \/ m.id = 0 /\ m.method = ""
           \/ m.id = 0 /\ m.method # "" /\ DomainOf(m.method) \notin EventDomains

\* C23: a malformed or unroutable message is dropped: no callback runs, no handler is
\* called, no promise resolves, nothing is scheduled, and the router's session table
\* with its pending callbacks, its pending-response counter and its long-polling id
\* set are as before.
C23_UnroutableMessageIsDropped ==
  [][turn'.op = "onMessage" =>
       \A r \in RouterIds :
         \A m \in Responses(r) \cup Events(r) :
           Unroutable(r, m) =>
             \/ /\ turn'.invoked = <<>>
                /\ turn'.delivered = <<>>
                /\ turn'.resolved = <<>>
                /\ routers' = routers
                /\ timers' = timers
                /\ calls' = calls
                /\ wire' = wire
             \/ ~OnMessage(r, m)]_vars

\* a message was dropped for an unknown domain or a wrong id while a callback was
\* pending and a dispatcher was registered
C23_Witness ==
  /\ turn.op = "onMessage"
  /\ turn.errors \cap {"non-existing domain", "wrong id"} # {}
  /\ PendingCalls(1) # {}
  /\ routers[1].pendingResponsesCount > 0
  /\ Registrations = 1

\* event message m reaches the dispatcher manager of a known domain on router r, and
\* its name is not in that domain's parameter-name table
UnspecifiedEvent(r, m) ==
  /\ routers[r].sessions[m.sessionId].present
  /\ routers[r].sessions[m.sessionId].proxyConnection = "none"
  /\ m.id = 0
  /\ DomainOf(m.method) \in EventDomains
  /\ m.method \notin RegisteredEvents

\* C24 (as stated): an event of a known domain whose name is not in the domain's
\* parameter-name table is reported as a protocol warning, not as a protocol error, and
\* no handler is called.
C24_UnspecifiedEventIsWarned ==
  [][turn'.op = "onMessage" =>
       \A r \in RouterIds :
         \A m \in Events(r) :
           UnspecifiedEvent(r, m) =>
             \/ /\ "unspecified event" \in turn'.warnings
                /\ turn'.errors \subseteq {"proxyConnection with no _onMessage"}
                /\ turn'.delivered = <<>>
             \/ ~OnMessage(r, m)]_vars

\* C24 (amended): such an event reaches no handler and is never reported as a protocol
\* error; it is reported as a protocol warning when the target has at least one
\* dispatcher registered for the domain, and dropped without a report when it has none.
C24_UnspecifiedEventIsWarnedIfDispatched ==
  [][turn'.op = "onMessage" =>
       \A r \in RouterIds :
         \A m \in Events(r) :
           UnspecifiedEvent(r, m) =>
             \/ /\ turn'.errors \subseteq {"proxyConnection with no _onMessage"}
                /\ turn'.delivered = <<>>
                /\ LET t == routers[r].sessions[m.sessionId].target
                   IN IF dispatchers[t][DomainOf(m.method)] # <<>>
                        THEN "unspecified event" \in turn'.warnings
                        ELSE turn'.warnings = {}
             \/ ~OnMessage(r, m)]_vars

\* an unspecified event was warned about and not delivered although a registered
\* dispatcher has a property named like the event
C24_Witness ==
  /\ turn.op = "onMessage"
  /\ "unspecified event" \in turn.warnings
  /\ turn.delivered = <<>>
  /\ \E t \in TargetIds :
       /\ routers[1].sessions[targets[t].sessionId].target = t
       /\ \E i \in 1..Len(dispatchers[t]["DOM"]) :
            HandlerImplements(dispatchers[t]["DOM"][i], UnqualifiedOf("DOM.unspecified"))

\* C25: a markUndoableState call that pushes keeps the entries before the index it
\* found and discards the entries at or beyond it, so that right after the call the
\* pushed model is the last entry, the index equals the stack length and redo() does
\* nothing.
C25_PushDiscardsRedoHistory ==
  [][\A model \in ModelIds, minorChange \in BOOLEAN :
       (/\ MarkUndoableState(model, minorChange)
        /\ ~(minorChange /\ lastModelWithMinorChange = model)) =>
         /\ index' = Len(stack')
         /\ Len(stack') \in {index + 1, index + 2}
         /\ SubSeq(stack', 1, index) = SubSeq(stack, 1, index)
         /\ stack'[index'] = model
         /\ RedoCall(UndoStateAfter) = UndoStateAfter]_vars

\* a push directly after an undo(): the entry the undo stepped over was discarded
C25_Witness ==
  /\ undoTurn.op = "markUndoableState"
  /\ undoTurn.previous = "undo"
  /\ undoTurn.beforePrevious > 0
  /\ undoTurn.before = undoTurn.beforePrevious - 1
  /\ index = undoTurn.before + 1
  /\ Len(stack) = index

\* C26: a minor markUndoableState call on the model of the most recent minor call, with
\* no major call, undo(), redo() or dispose since that call, leaves the stack and the
\* index as they are and issues no backend call.
C26_RepeatedMinorChangeIsNoOp ==
  [][\A model \in ModelIds :
       (MarkUndoableState(model, TRUE) /\ recentMinor = model) =>
         /\ stack' = stack
         /\ index' = index
         /\ undoTurn'.backend = <<>>]_vars

\* C27: a markUndoableState call for a model while another model has a pending minor
\* change first issues the backend call on the other model, clears that model's
\* marker, and pushes one entry only, the one of the call's own model: the flush adds
\* no entry to the one the minor change pushed.
C27_FlushCommitsOldModelWithoutPush ==
  [][\A model \in ModelIds, minorChange \in BOOLEAN :
       (/\ MarkUndoableState(model, minorChange)
        /\ lastModelWithMinorChange \notin {0, model}) =>
         /\ Len(undoTurn'.backend) >= 1
         /\ undoTurn'.backend[1] = [call |-> "markUndoableState",
                                    model |-> lastModelWithMinorChange]
         /\ lastModelWithMinorChange' # lastModelWithMinorChange
         /\ stack' = Append(SubSeq(stack, 1, index), model)
         /\ index' = index + 1]_vars

\* C28: undo() at index 0 and redo() at the end of the stack change nothing and issue
\* no backend call; elsewhere undo() lowers the index by one and issues a backend undo
\* on the model of the entry it stepped over, redo() raises the index by one and issues
\* a backend redo on the model of the entry it stepped over; a redo() directly after an
\* undo() addresses the model the undo() addressed.
C28_UndoRedoStepOverOneEntry ==
  [][/\ undoTurn'.op = "undo" =>
          IF index = 0
            THEN /\ stack' = stack /\ index' = index
                 /\ lastModelWithMinorChange' = lastModelWithMinorChange
                 /\ undoTurn'.backend = <<>>
            ELSE /\ stack' = stack /\ index' = index - 1
                 /\ undoTurn'.backend = <<[call |-> "undo", model |-> stack[index]]>>
     /\ undoTurn'.op = "redo" =>
          IF index = Len(stack)
            THEN /\ stack' = stack /\ index' = index
                 /\ lastModelWithMinorChange' = lastModelWithMinorChange
                 /\ undoTurn'.backend = <<>>
            ELSE /\ stack' = stack /\ index' = index + 1
                 /\ undoTurn'.backend = <<[call |-> "redo", model |-> stack[index + 1]]>>
     /\ (undoTurn'.op = "redo" /\ undoTurn.op = "undo" /\ undoTurn.backend # <<>>) =>
          /\ Len(undoTurn'.backend) = 1
          /\ undoTurn'.backend[1].model = undoTurn.backend[1].model]_vars

\* a redo() directly after an undo() issued its backend call on a stack that holds
\* entries of two models
C28_Witness ==
  /\ undoTurn.op = "redo"
  /\ undoTurn.previous = "undo"
  /\ undoTurn.backend # <<>>
  /\ \E i, j \in 1..Len(stack) : stack[i] # stack[j]

\* the entries of seq that are not element, in their order
RECURSIVE Without(_, _)
Without(seq, element) ==
  IF seq = <<>> THEN <<>>
  ELSE IF Head(seq) = element THEN Without(Tail(seq), element)
  ELSE <<Head(seq)>> \o Without(Tail(seq), element)

\* C29: after the undo stack's dispose of a model the stack holds no entry of the
\* model; the entries before the index are the former entries before the index that
\* remain, in their order, and the entries at or after the index are the former
\* entries at or after it that remain, in their order; the index is lowered by the
\* number of removed entries that were before it.
C29_DisposeRemovesModelAndShiftsIndex ==
  [][\A model \in ModelIds :
       DisposeModel(model) =>
         /\ \A i \in 1..Len(stack') : stack'[i] # model
         /\ index' = index - Cardinality({i \in 1..index : stack[i] = model})
         /\ index' \in 0..Len(stack')
         /\ SubSeq(stack', 1, index') = Without(SubSeq(stack, 1, index), model)
         /\ SubSeq(stack', index' + 1, Len(stack')) =
              Without(SubSeq(stack, index + 1, Len(stack)), model)]_vars

\* a dispose removed an entry before the index and left entries of the other model on
\* both sides of the index
C29_Witness ==
  /\ undoTurn.op = "dispose"
  /\ index < undoTurn.before
  /\ 0 < index /\ index < Len(stack)

\* C30: when the backend call of a major markUndoableState completes right after a
\* minor call that pushed an entry and set the pending-minor marker, the marker stays
\* set, so that the next minor call on the same model coalesces with that entry.
C30_CompletionKeepsLaterMinorMarker ==
  [][(/\ undoTurn'.op = "markUndoableState completed"
      /\ undoTurn.op = "markUndoableState"
      /\ recentMinor # 0
      /\ index > undoTurn.before
      /\ lastModelWithMinorChange = recentMinor) =>
        lastModelWithMinorChange' = recentMinor]_vars

\* C31: in every reachable state of the undo stack, whatever the order of the
\* markUndoableState, undo, redo and dispose calls of the models and of the completions
\* of the backend calls, the index lies between 0 and the stack length.
C31_IndexWithinStack == index \in 0..Len(stack)

\* a dispose lowered the index, which is at the end of a stack that still has entries,
\* while a backend call is not completed
C31_Witness ==
  /\ undoTurn.op = "dispose"
  /\ index < undoTurn.before
  /\ index = Len(stack) /\ index > 0
  /\ awaiting > 0

\* the calls whose callback ran in the step
InvokedInStep == {turn'.invoked[i].call : i \in DOMAIN turn'.invoked}

\* the calls whose callback a timer is armed for after the step
ArmedAfter ==
  {timers'[i].call : i \in {j \in DOMAIN timers' : "call" \in DOMAIN timers'[j]}}

\* C32: the completion callback of an invoke call is invoked at most once: a step in
\* which the callback of an invoke call runs does not schedule that callback again, also
\* when a call is cached and the target has no router.
C32_CompletedCallbackIsNotScheduledAgain ==
  [][\A c \in CallIds :
       (calls[c].kind = "invoke" /\ c \in InvokedInStep) => c \notin ArmedAfter]_vars

\* the cached calls that the step hands to sendMessage
ReleasedInStep ==
  {c \in CallIds : /\ calls[c].kind = "invoke"
                    /\ cachedMessages[calls[c].method] = c
                    /\ calls'[c].messageId # calls[c].messageId}

\* C33: a cached debounced call is sent on the router of the target that issued it and
\* with that target's sessionId, also when the request whose completion releases it
\* was issued by another target of the same domain.
C33_CachedCallIsSentOnItsOwnRouter ==
  [][\A c \in ReleasedInStep :
       targets[calls[c].target].router # 0 =>
         /\ calls'[c].router = targets[calls[c].target].router
         /\ calls'[c].sessionId = targets[calls[c].target].sessionId]_vars

\* the commands sent on router r whose callback has not been invoked and that were not
\* dropped for an unknown session
AwaitingCallback(r) ==
  {c \in CallIds : calls[c].router = r /\ calls[c].written /\ calls[c].invoked = 0}

\* C34: a drain check that finds continuations queued while every command sent so far
\* has had its callback invoked (by its response or by the session-unregistering error)
\* or was dropped for an unknown session runs the continuations.
C34_DrainRunsOnceEveryCallbackWasInvoked ==
  [][turn'.op = "drain" =>
       LET r == Head(timers).drain
       IN (routers[r].pendingScripts # <<>> /\ AwaitingCallback(r) = {}) =>
            turn'.ran = routers[r].pendingScripts]_vars

\* C35: each continuation queued through runAfterPendingDispatches is executed at most
\* once and the continuations are executed in the order they were queued (a later
\* continuation has a higher number), however many drain checks are armed at a time.
C35_ContinuationsRunOnceInQueueOrder ==
  \A r \in RouterIds :
    LET e == routers[r].executed
    IN /\ \A i, j \in DOMAIN e : i < j => e[i] < e[j]
       /\ \A i \in DOMAIN e : \A j \in DOMAIN routers[r].pendingScripts :
            e[i] # routers[r].pendingScripts[j]

\* two continuations were queued and run by one drain check while another drain check
\* was armed; that check has run as well
C35_Witness ==
  /\ routers[1].executed = <<1, 2>>
  /\ turn.op = "drain" /\ turn.ran = <<>>
  /\ routers[1].pendingScripts = <<>>

\* the calls whose callback router r stores after the step
PendingCallsOfSessionAfter(r, sessionId) ==
  {p[2] : p \in routers'[r].sessions[sessionId].callbacks}

\* C36: registerSession with a sessionId that already has a session on the router does
\* not lose the callbacks pending in the replaced session: after the call each of them
\* is still stored for its response or scheduled with an error.
C36_ReplacedSessionKeepsPendingCallbacks ==
  [][turn'.op = "registerSession" =>
       \A t \in TargetIds, s \in SessionIds, k \in ProxyConnections :
         \A p \in routers[1].sessions[s].callbacks :
           \/ p[2] \in PendingCallsOfSessionAfter(1, s)
           \/ p[2] \in ArmedAfter
           \/ ~RegisterSessionCall(1, t, s, k)]_vars

\* the responses of the backend and the events that a registered handler implements
ProxyMessages ==
  Responses(1) \cup {m \in Events(1) : m.method = "DOM.documentUpdated" /\ ~m.compress}

\* the proxy path: one router, sessions with and without proxy connections, commands
\* pending in them, a dispatcher, responses and events
ProxyNext ==
  \/ \E t \in TargetIds, p \in {0} \cup TargetIds, s \in SessionIds :
       CreateTarget(t, p, s, FALSE) /\ \A r \in RouterIds : routers'[r].exists => r = 1
  \/ \E t \in TargetIds, s \in SessionIds, k \in ProxyConnections :
       RegisterSessionCall(1, t, s, k)
  \/ \E t \in TargetIds : nextCall <= MaxCalls /\ Invoke(t, "DOM.querySelector")
  \/ \E t \in TargetIds, h \in HandlerIds :
       Registrations < 1 /\ RegisterDispatcher(t, "DOM", h)
  \/ \E m \in ProxyMessages : OnMessage(1, m)

ProxySpec == Init /\ [][ProxyNext]_vars

\* message m is addressed to a session of router r that has a proxy connection
ForProxiedSession(r, m) ==
  /\ routers[r].sessions[m.sessionId].present
  /\ routers[r].sessions[m.sessionId].proxyConnection # "none"

\* the step invokes no callback, calls no handler, resolves no promise and leaves the
\* router, the calls and the timers as they are
NotHandled ==
  /\ turn'.invoked = <<>>
  /\ turn'.delivered = <<>>
  /\ turn'.resolved = <<>>
  /\ routers' = routers
  /\ calls' = calls
  /\ timers' = timers

\* C37 (as stated): a message addressed to a session that has a proxy connection is
\* forwarded to the proxy and nothing else happens to it: no callback pending in that
\* session is invoked and the session's target gets no dispatch.
C37_ProxiedSessionMessageGoesToProxyOnly ==
  [][turn'.op = "onMessage" =>
       \A m \in ProxyMessages :
         ForProxiedSession(1, m) =>
           \/ turn'.forwarded >= 1 /\ NotHandled
           \/ ~OnMessage(1, m)]_vars

\* C37 amended: such a message is forwarded to every proxy connection of the router
\* whose _onMessage handler is set, to its own session's one among them, and nothing
\* else happens to it: no callback pending in that session is invoked and the session's
\* target gets no dispatch.
C37_ProxiedSessionMessageIsNotHandled ==
  [][turn'.op = "onMessage" =>
       \A m \in ProxyMessages :
         ForProxiedSession(1, m) =>
           \/ /\ turn'.forwarded = Cardinality(ProxySessions(1, {"proxy"}))
              /\ routers[1].sessions[m.sessionId].proxyConnection = "proxy" =>
                   turn'.forwarded >= 1
              /\ NotHandled
           \/ ~OnMessage(1, m)]_vars

\* a message arrived while both sessions had a proxy connection with a handler, a
\* command was pending in one of them and a dispatcher was registered
C37_Witness ==
  /\ turn.op = "onMessage"
  /\ turn.forwarded = 2
  /\ turn.invoked = <<>> /\ turn.delivered = <<>>
  /\ ProxySessions(1, {"proxy"}) = SessionIds
  /\ \E c \in PendingCalls(1) : calls[c].written /\ calls[c].invoked = 0
  /\ Registrations = 1

====
